---- MODULE Spec2Model ----
(***************************************************************************)
(* Prediction-market arbitrage scanner: venue adapters, ingestion          *)
(* orchestrator, orderbook cache and arbitrage detector.                   *)
(*                                                                         *)
(* Conventions.  Prices are held in cents (0.40 is 40), sizes in whole     *)
(* contracts, times in milliseconds.  The detector's arithmetic on JS      *)
(* numbers is modelled exactly, on reduced fractions [num, den] of a       *)
(* dollar.  null is the record Null.                                       *)
(***************************************************************************)
EXTENDS Integers, Sequences, FiniteSets, TLC

VARIABLES
  now,            \* wall clock, ms (Date.now())
  enabled,        \* venues with env.ENABLE_<VENUE> set
  listeners,      \* per venue: how many times the orchestrator's listeners are registered on its adapter
  kalshiPoll,     \* startKalshiPolling calls awaiting their market query, and kalshiClient.pollInterval
  orch,           \* IngestionOrchestrator: "idle", "syncing" (start() awaiting fullSync), "running"
  syncPending,    \* venues whose fullSync fetch has not settled yet
  health,         \* per adapter: this.health.status / consecutiveErrors
  ws,             \* PolymarketClient.ws: "none", "connecting", "open", "closing" (disconnect() closed it), "closed" (reconnect timer set)
  polls,          \* Kalshi polling iterations whose Promise.all is outstanding
  handlers,       \* orchestrator event handlers suspended after the cache write
  cache,          \* redis: orderbook:<platform>:<externalId> -> entry or Null
  snap,           \* the pairs of entries the detector's two keys held at one instant
  bus,            \* the last event the orchestrator forwarded, and the parity of their number
  matchQuality,   \* overallScore of the CONFIRMED MarketMatch, in hundredths
  dpc,            \* position of runArbitrageScan / analyzeMatch
  sourceOB,       \* analyzeMatch: sourceOB
  targetOB,       \* analyzeMatch: targetOB
  scanAt,         \* Date.now() of the last analyzeOrderBook pair
  strategies,     \* analyzeMatch: strategies (<<>> until both directions are evaluated)
  bestOpp,        \* analyzeMatch: bestOpp
  opportunities,  \* ArbitrageOpportunity rows
  scans,          \* scans completed
  stats,          \* IngestionOrchestrator.stats: marketsIngested, lastFullSyncAt
  jobs,           \* per venue: the sync<Venue>Markets call past its fetch, or Null
  resync,         \* a periodic fullSync() is awaiting its Promise.allSettled
  quotes,         \* per market key: the quote fields of its Market row, once written
  priceSnapshots, \* per market key: the number of its PriceSnapshot rows
  missed,         \* venue side: per market key, the successive listings of its venue that left a stored market out
  markets,        \* Market rows
  matches,        \* MarketMatch rows
  refresh,        \* updateMatchedMarketOrderbooks: its position and queue
  mpc,            \* position of runMatching
  proc,           \* the process: entry point, isShuttingDown, its loops, server, stores, exit
  candidates      \* runMatching: candidates

ingVars == <<enabled, listeners, kalshiPoll, orch, syncPending, health, ws, polls, handlers, bus>>
detVars == <<matchQuality, dpc, sourceOB, targetOB, scanAt, strategies, bestOpp, opportunities, scans>>
syncVars == <<stats, jobs, resync, markets, missed, quotes, priceSnapshots>>
refVars == <<matches, refresh>>
matcherVars == <<mpc, candidates>>
vars == <<now, cache, snap, ingVars, detVars, syncVars, refVars, matcherVars, proc>>

Null == [kind |-> "null"]
Pending == [kind |-> "pending"]

Venues == {"POLYMARKET", "KALSHI", "PREDICTIT"}

(***************************************************************************)
(* Bounds of the model.                                                    *)
(***************************************************************************)
MaxErrors == 11      \* consecutiveErrors is counted up to here
MaxPolls == 2        \* Kalshi polling iterations in flight at once
MaxHandlers == 2     \* suspended orchestrator listeners at once
MaxTicks == 1        \* clock ticks in one behaviour
MaxScans == 1        \* detector scans in one behaviour
MaxIngested == 3     \* no further periodic full sync once this many markets were counted
MissedSyncs == 2     \* the successive listings (N) after which an unlisted market is to be closed
MaxStarts == 2       \* start() calls whose listener registrations complete
TrailLength == 2     \* the N of the price-snapshot trail; a market gets at most N + 1 snapshots
TickSteps == {500}   \* ms per clock tick
Horizon == 21000     \* the clock of a cache-expiry run stops here
ElapseSteps == {1000, 9000}

(***************************************************************************)
(* Program constants.                                                      *)
(***************************************************************************)
DegradedThreshold == 3
OfflineThreshold == 10
OrderbookTtlMs == 10000
\* pLimit(10), pLimit(5)
PolyLimit == 10
KalshiLimit == 5

(***************************************************************************)
(* Adapter health: recordSuccess / recordError (identical in the three     *)
(* adapters).                                                              *)
(***************************************************************************)
InitialHealth == [status |-> "OFFLINE", consecutiveErrors |-> 0]

RecordSuccess(h) == [status |-> "HEALTHY", consecutiveErrors |-> 0]

RecordErrorNeverOffline(h) ==
  LET n == h.consecutiveErrors + 1
  IN [status |-> IF n >= DegradedThreshold THEN "DEGRADED" ELSE h.status,
      consecutiveErrors |-> n]

RecordError(h) ==
  LET n == h.consecutiveErrors + 1
      s1 == IF n >= DegradedThreshold THEN "DEGRADED" ELSE h.status
      s2 == IF n >= OfflineThreshold THEN "OFFLINE" ELSE s1
  IN [status |-> s2, consecutiveErrors |-> n]

\* The outcome of one HTTP call of adapter v, as its try/catch records it.
RecordCall(v, ok) ==
  /\ ok \/ health[v].consecutiveErrors < MaxErrors
  /\ health' = [health EXCEPT ![v] = IF ok THEN RecordSuccess(@) ELSE RecordError(@)]

(***************************************************************************)
(* Order books.                                                            *)
(***************************************************************************)
Level(p, s) == [price |-> p, size |-> s]

\* Array.prototype.sort is stable: a level goes after the levels it does not precede.
Precedes(a, b, desc) == IF desc THEN a.price > b.price ELSE a.price < b.price

RECURSIVE InsertLevel(_, _, _)
InsertLevel(x, t, desc) ==
  IF t = <<>> THEN <<x>>
  ELSE IF Precedes(x, t[Len(t)], desc)
       THEN Append(InsertLevel(x, SubSeq(t, 1, Len(t) - 1), desc), t[Len(t)])
       ELSE Append(t, x)

RECURSIVE SortLevels(_, _)
SortLevels(s, desc) ==
  IF s = <<>> THEN <<>>
  ELSE InsertLevel(s[Len(s)], SortLevels(SubSeq(s, 1, Len(s) - 1), desc), desc)

Book(platform, externalId, timestamp, bids, asks) ==
  [platform |-> platform, externalId |-> externalId, timestamp |-> timestamp,
   bids |-> bids, asks |-> asks]

\* bids[0]?.price ?? null (a present price is boxed, so that it compares with Null)
BestPrice(side) == IF side = <<>> THEN Null ELSE [price |-> side[1].price]

\* KalshiClient.fetchOrderBook, the success path: yes levels are the bids, the
\* no levels mirrored (1 - price) are the asks; timestamp is new Date().
KalshiNormalize(ticker, raw, t) ==
  Book("KALSHI", ticker, t,
       SortLevels([i \in 1..Len(raw.yes) |-> Level(raw.yes[i][1], raw.yes[i][2])], TRUE),
       SortLevels([i \in 1..Len(raw.no) |-> Level(100 - raw.no[i][1], raw.no[i][2])], FALSE))

CacheKeys == {<<"POLYMARKET", "P1">>, <<"KALSHI", "K1">>}
KeyOf(ob) == <<ob.platform, ob.externalId>>

CacheSetKeepTtl(c, ob) ==
  [c EXCEPT ![KeyOf(ob)] =
     [book |-> ob,
      writtenAt |-> now,
      expiresAt |-> IF @ # Null THEN @.expiresAt ELSE now + OrderbookTtlMs]]

\* redis.set(key, JSON.stringify(orderbook), 'EX', 10); writtenAt is not part
\* of the store, it remembers when the entry was set
CacheSet(c, ob) ==
  [c EXCEPT ![KeyOf(ob)] =
     [book |-> ob, writtenAt |-> now, expiresAt |-> now + OrderbookTtlMs]]

\* the detector's two keys as they stand in c, remembered while a detector runs
Seen(c) ==
  IF dpc = "off" THEN snap
  ELSE snap \cup {<< c[<<"POLYMARKET", "P1">>], c[<<"KALSHI", "K1">>] >>}

\* redis.get(key): an expired key reads as null
CacheGet(k) == IF cache[k] # Null /\ now < cache[k].expiresAt THEN cache[k].book ELSE Null

(***************************************************************************)
(* What the venues send.                                                   *)
(***************************************************************************)
\* /markets/<ticker>/orderbook responses ([price in cents, contracts])
AnsweringKalshiRaw == [yes |-> << <<44, 100>>, <<45, 50>> >>, no |-> << <<50, 100>> >>]

\* a response whose body is not an order book (no `orderbook` member)
MalformedKalshiRaw == [error |-> "unexpected"]

KalshiRawBooks ==
  { [yes |-> y, no |-> n] :
      y \in { << <<44, 100>>, <<45, 50>> >>, << <<45, 50>>, <<60, 100>>, <<45, 30>> >> },
      n \in { << <<50, 100>> >> } }

\* 'book' messages of the push transport, passed on as they arrive
WsBooks(t) ==
  { Book("POLYMARKET", "P1", ts, b, a) :
      ts \in {t},
      b \in { << Level(45, 100) >> },
      a \in { << Level(55, 100) >> } }

HandlerKeys == { <<"POLYMARKET", "orderbook">>, <<"POLYMARKET", "price">>,
                 <<"KALSHI", "orderbook">>, <<"KALSHI", "price">>,
                 <<"PREDICTIT", "price">> }

\* requests: the HTTP requests the iteration has issued for its order book
IdlePoll == [quote |-> "none", book |-> Null, requests |-> 0]

(***************************************************************************)
(* Ingestion orchestrator and adapters.                                    *)
(***************************************************************************)
InFlight == handlers[<<"POLYMARKET", "orderbook">>] + handlers[<<"POLYMARKET", "price">>]
            + handlers[<<"KALSHI", "orderbook">>] + handlers[<<"KALSHI", "price">>]
            + handlers[<<"PREDICTIT", "price">>]

\* An adapter emits events that start n listener runs in all; each runs up to
\* its first await.
Emit(n) == InFlight + n <= MaxHandlers

\* IngestionOrchestrator.start(), up to `await this.fullSync()`
Start ==
  /\ orch \in {"idle", "stopped"}
  /\ orch' = "syncing"
  /\ syncPending' = enabled
  /\ UNCHANGED <<now, cache, snap, enabled, listeners, kalshiPoll, health, ws, polls, handlers, bus, detVars, syncVars, refVars, matcherVars, proc>>

\* the (platform, externalId) keys of the markets the venues list
MarketKeys ==
  {<<"POLYMARKET", "P1">>, <<"POLYMARKET", "P2">>, <<"KALSHI", "K1">>, <<"KALSHI", "K2">>,
   <<"PREDICTIT", "7-1">>}

\* NormalizedMarket: the question as its set of stemmed tokens and the date
\* expressions in it, the end date in seconds, the rules as their set of
\* stemmed tokens (Null: no rules)
Market(platform, externalId, question, dates, category, endDate, rules) ==
  [platform |-> platform, externalId |-> externalId, question |-> question,
   dates |-> dates, category |-> category, endDate |-> endDate, rules |-> rules]

\* prisma.market.upsert on (platform, externalId): create sets status ACTIVE,
\* update leaves the status
UpsertMarket(rows, m) ==
  LET old == {r \in rows : r.platform = m.platform /\ r.externalId = m.externalId}
      status == IF old = {} THEN "ACTIVE" ELSE (CHOOSE r \in old : TRUE).status
  IN (rows \ old) \cup
     {[platform |-> m.platform, externalId |-> m.externalId, question |-> m.question,
       dates |-> m.dates, category |-> m.category, endDate |-> m.endDate,
       rules |-> m.rules, status |-> status]}

\* a Market row with key mk exists (updateMany matches it, findFirst finds it)
HasRow(mk) == \E r \in markets : <<r.platform, r.externalId>> = mk

\* the awaits of a sync<Venue>Markets call after its fetch: one upsertMarket
\* per market, then for PredictIt one processPriceUpdate per quote
SyncItems(v, ms) ==
  [i \in 1..Len(ms) |-> [kind |-> "market", market |-> ms[i]]]
  \o (IF v = "PREDICTIT"
      THEN [i \in 1..Len(ms) |-> [kind |-> "quote", market |-> ms[i]]]
      ELSE <<>>)

\* sync<Venue>Markets goes on with job: to its next await, or to
\* `this.stats.marketsIngested += markets.length` and its return
SyncAdvance(v, job) ==
  IF job.todo = <<>>
  THEN /\ stats' = [stats EXCEPT !.marketsIngested = @ + job.n]
       /\ jobs' = [jobs EXCEPT ![v] = Null]
       /\ syncPending' = syncPending \ {v}
  ELSE /\ jobs' = [jobs EXCEPT ![v] = job]
       /\ UNCHANGED <<stats, syncPending>>

SyncRejectAll(v) ==
  /\ jobs' = [w \in Venues |-> Null]
  /\ syncPending' = {}
  /\ UNCHANGED stats

\* sync<Venue>Markets throws: its promise is rejected
SyncReject(v) ==
  /\ jobs' = [jobs EXCEPT ![v] = Null]
  /\ syncPending' = syncPending \ {v}
  /\ UNCHANGED stats

\* the listing ms of venue v leaves out, or not, the markets stored for v
Missing(v, ms) ==
  [k \in MarketKeys |->
     IF k[1] # v THEN missed[k]
     ELSE IF \E i \in 1..Len(ms) : <<ms[i].platform, ms[i].externalId>> = k THEN 0
     ELSE IF \E m \in markets : <<m.platform, m.externalId>> = k
          THEN (IF missed[k] < MissedSyncs THEN missed[k] + 1 ELSE MissedSyncs)
          ELSE 0]

\* sync<Venue>Markets: fetchActiveMarkets / fetchAllMarkets settles, with the
\* markets ms or with an error
SyncResponse(v, ok, ms) ==
  /\ v \in syncPending
  /\ jobs[v] = Null
  /\ RecordCall(v, ok)
  /\ missed' = IF ok THEN Missing(v, ms) ELSE missed
  /\ IF ok THEN SyncAdvance(v, [todo |-> SyncItems(v, ms), n |-> Len(ms)])
     ELSE SyncReject(v)
  /\ UNCHANGED <<now, cache, snap, enabled, listeners, kalshiPoll, orch, ws, polls, handlers, bus, detVars,
                 resync, markets, quotes, priceSnapshots, refVars, matcherVars, proc>>

\* sync<Venue>Markets: the upsertMarket (or processPriceUpdate) it awaits
\* settles
SyncUpsert(v, ok) ==
  /\ jobs[v] # Null
  /\ LET item == Head(jobs[v].todo)
     IN IF ok
        THEN /\ markets' = IF item.kind = "market" THEN UpsertMarket(markets, item.market)
                           ELSE markets
             /\ SyncAdvance(v, [jobs[v] EXCEPT !.todo = Tail(@)])
        ELSE /\ SyncReject(v)
             /\ UNCHANGED markets
  /\ LET item == Head(jobs[v].todo)
         mk == <<item.market.platform, item.market.externalId>>
     IN quotes' = IF ok /\ item.kind = "quote" /\ HasRow(mk)
                  THEN [quotes EXCEPT ![mk] = [kind |-> "quote"]]
                  ELSE quotes
  /\ UNCHANGED <<now, cache, snap, enabled, listeners, kalshiPoll, orch, health, ws, polls, handlers, bus, detVars,
                 resync, missed, priceSnapshots, refVars, matcherVars, proc>>

\* the listener registrations start() has made or has under way for venue v
Registered(v) == listeners[v] + (IF v = "KALSHI" THEN kalshiPoll.queries ELSE 0)

\* the initial fullSync returns (Promise.allSettled resolved, lastFullSyncAt
\* set) and start() goes on: connectWebSocket, listeners, polling (Kalshi: up
\* to the await of startKalshiPolling's market query), timers
StartFinish ==
  /\ orch = "syncing"
  /\ syncPending = {}
  /\ stats' = [stats EXCEPT !.lastFullSyncAt = [at |-> now]]
  /\ orch' = "running"
  /\ ws' = IF "POLYMARKET" \in enabled THEN "connecting" ELSE ws
  /\ \A v \in enabled : Registered(v) < MaxStarts
  /\ listeners' = [v \in Venues |->
                     IF v \in enabled \ {"KALSHI"} THEN listeners[v] + 1 ELSE listeners[v]]
  /\ kalshiPoll' = IF "KALSHI" \in enabled
                   THEN [kalshiPoll EXCEPT !.queries = @ + 1]
                   ELSE kalshiPoll
  /\ UNCHANGED <<now, cache, snap, enabled, syncPending, health, polls, handlers, bus, detVars,
                 jobs, resync, markets, missed, quotes, priceSnapshots, refVars, matcherVars, proc>>

\* the syncInterval timer fires: fullSync()
FullSyncTick ==
  /\ orch = "running"
  /\ ~resync
  /\ syncPending = {}
  /\ stats.marketsIngested < MaxIngested
  /\ resync' = TRUE
  /\ syncPending' = enabled
  /\ UNCHANGED <<now, cache, snap, enabled, listeners, kalshiPoll, orch, health, ws, polls, handlers, bus, detVars,
                 stats, jobs, markets, missed, quotes, priceSnapshots, refVars, matcherVars, proc>>

\* a periodic fullSync returns: Promise.allSettled resolved, lastFullSyncAt set
FullSyncDone ==
  /\ resync
  /\ syncPending = {}
  /\ resync' = FALSE
  /\ stats' = [stats EXCEPT !.lastFullSyncAt = [at |-> now]]
  /\ UNCHANGED <<now, cache, snap, enabled, listeners, kalshiPoll, orch, syncPending, health, ws, polls, handlers, bus,
                 detVars, jobs, markets, missed, quotes, priceSnapshots, refVars, matcherVars, proc>>

\* ws.on('open')
WsOpen ==
  /\ ws = "connecting"
  /\ ws' = "open"
  /\ health' = [health EXCEPT !["POLYMARKET"].status = "HEALTHY"]
  /\ UNCHANGED <<now, cache, snap, enabled, listeners, kalshiPoll, orch, syncPending, polls, handlers, bus, detVars, syncVars, refVars, matcherVars, proc>>

\* ws.on('close'): scheduleReconnect
WsClose ==
  /\ ws \in {"connecting", "open", "closing"}
  /\ ws' = "closed"
  /\ health' = [health EXCEPT !["POLYMARKET"].status = "DEGRADED"]
  /\ UNCHANGED <<now, cache, snap, enabled, listeners, kalshiPoll, orch, syncPending, polls, handlers, bus, detVars, syncVars, refVars, matcherVars, proc>>

\* the wsReconnectTimer fires: connectWebSocket()
WsReconnect ==
  /\ ws = "closed"
  /\ ws' = "connecting"
  /\ UNCHANGED <<now, cache, snap, enabled, listeners, kalshiPoll, orch, syncPending, health, polls, handlers, bus, detVars, syncVars, refVars, matcherVars, proc>>

\* ws.on('error'): recordError
WsError ==
  /\ ws \in {"connecting", "open"}
  /\ RecordCall("POLYMARKET", FALSE)
  /\ UNCHANGED <<now, cache, snap, enabled, listeners, kalshiPoll, orch, syncPending, ws, polls, handlers, bus, detVars, syncVars, refVars, matcherVars, proc>>

\* ws.on('message') with event 'book': handleWsMessage emits 'orderbook'; the
\* orchestrator's listener runs processOrderbookUpdate up to the cache write.
WsBookMessage(ob) ==
  /\ ws = "open"
  /\ Emit(listeners["POLYMARKET"])
  /\ cache' = CacheSet(cache, ob)
  /\ snap' = Seen(cache')
  /\ handlers' = [handlers EXCEPT ![<<"POLYMARKET", "orderbook">>] = @ + listeners["POLYMARKET"]]
  /\ UNCHANGED <<now, enabled, listeners, kalshiPoll, orch, syncPending, health, ws, polls, bus, detVars, syncVars, refVars, matcherVars, proc>>

\* ws.on('message') with event 'price_change': handleWsMessage emits 'price'
WsPriceMessage ==
  /\ ws = "open"
  /\ Emit(listeners["POLYMARKET"])
  /\ handlers' = [handlers EXCEPT ![<<"POLYMARKET", "price">>] = @ + listeners["POLYMARKET"]]
  /\ UNCHANGED <<now, cache, snap, enabled, listeners, kalshiPoll, orch, syncPending, health, ws, polls, bus, detVars, syncVars, refVars, matcherVars, proc>>

\* startKalshiPolling past its market query: kalshiClient.startPolling sets
\* the pollInterval (clearing one that is set), then the listeners are added
KalshiPollingStarted ==
  /\ kalshiPoll.queries > 0
  /\ kalshiPoll' = [queries |-> kalshiPoll.queries - 1, interval |-> TRUE]
  /\ listeners' = [listeners EXCEPT !["KALSHI"] = @ + 1]
  /\ UNCHANGED <<now, cache, snap, enabled, orch, syncPending, health, ws, polls, handlers, bus, detVars, syncVars, refVars, matcherVars, proc>>

\* The Kalshi pollInterval fires for ticker K1: both fetches are issued.
KalshiPollTick(i) ==
  /\ kalshiPoll.interval
  /\ polls[i] = IdlePoll
  /\ \A j \in 1..(i - 1) : polls[j] # IdlePoll
  /\ polls' = [polls EXCEPT ![i] = [quote |-> "pending", book |-> Pending, requests |-> 1]]
  /\ UNCHANGED <<now, cache, snap, enabled, listeners, kalshiPoll, orch, syncPending, health, ws, handlers, bus, detVars, syncVars, refVars, matcherVars, proc>>

\* startPolling once Promise.all has resolved with p: emit 'price' if quote,
\* emit 'orderbook' if orderbook; the iteration is over (one ticker)
KalshiPollEmit(i, p) ==
  LET q == IF p.quote = "ok" THEN listeners["KALSHI"] ELSE 0
      b == IF p.book # Null THEN listeners["KALSHI"] ELSE 0
  IN /\ Emit(q + b)
     /\ cache' = IF b > 0 THEN CacheSet(cache, p.book) ELSE cache
     /\ snap' = Seen(cache')
     /\ handlers' = [handlers EXCEPT ![<<"KALSHI", "price">>] = @ + q,
                                     ![<<"KALSHI", "orderbook">>] = @ + b]
     /\ polls' = [polls EXCEPT ![i] = IdlePoll]

\* One of the two fetches of an iteration settled with p: the iteration goes
\* on waiting for the other, or Promise.all resolves and it emits at once.
KalshiPollSettle(i, p) ==
  IF p.quote = "pending" \/ p.book = Pending
  THEN polls' = [polls EXCEPT ![i] = p] /\ UNCHANGED <<cache, snap, handlers, syncVars, refVars, matcherVars, proc>>
  ELSE KalshiPollEmit(i, p)

\* fetchMarketQuote settles
KalshiQuoteResponse(i, ok) ==
  /\ polls[i].quote = "pending"
  /\ RecordCall("KALSHI", ok)
  /\ KalshiPollSettle(i, [polls[i] EXCEPT !.quote = IF ok THEN "ok" ELSE "failed"])
  /\ UNCHANGED <<now, enabled, listeners, kalshiPoll, orch, syncPending, ws, bus, detVars, syncVars, refVars, matcherVars, proc>>

\* fetchOrderBook settles: a normalized book, or null after recordError (the
\* request failed, or recordSuccess ran and reading the body then threw)
KalshiBookResponse(i, ok, raw) ==
  /\ polls[i].book = Pending
  /\ IF ok /\ raw = MalformedKalshiRaw
     THEN health' = [health EXCEPT !["KALSHI"] = RecordError(RecordSuccess(@))]
     ELSE RecordCall("KALSHI", ok)
  /\ KalshiPollSettle(i, [polls[i] EXCEPT !.book = IF ok /\ raw # MalformedKalshiRaw
                                                   THEN KalshiNormalize("K1", raw, now)
                                                   ELSE Null])
  /\ UNCHANGED <<now, enabled, listeners, kalshiPoll, orch, syncPending, ws, bus, detVars, syncVars, refVars, matcherVars, proc>>

\* The PredictIt pollInterval fires and fetchAllMarkets settles: one 'price'
\* event per quote (one contract here).
PredictItPoll(ok) ==
  /\ orch = "running"
  /\ "PREDICTIT" \in enabled
  /\ RecordCall("PREDICTIT", ok)
  /\ IF ok
     THEN /\ Emit(listeners["PREDICTIT"])
          /\ handlers' = [handlers EXCEPT ![<<"PREDICTIT", "price">>] = @ + listeners["PREDICTIT"]]
     ELSE UNCHANGED handlers
  /\ UNCHANGED <<now, cache, snap, enabled, listeners, kalshiPoll, orch, syncPending, ws, polls, bus, detVars, syncVars, refVars, matcherVars, proc>>

BusKind(kind) == IF kind = "orderbook" THEN "orderbookUpdate" ELSE "priceUpdate"

\* the market the events of venue v are about
MarketOf(v) ==
  CASE v = "POLYMARKET" -> <<"POLYMARKET", "P1">>
    [] v = "KALSHI" -> <<"KALSHI", "K1">>
    [] v = "PREDICTIT" -> <<"PREDICTIT", "7-1">>

\* the quote fields processOrderbookUpdate writes to the Market row: none when
\* the book has neither a best bid nor a best ask
QuoteOf(book) ==
  IF book.bids = <<>> /\ book.asks = <<>> THEN Null
  ELSE [kind |-> "book", yesBid |-> BestPrice(book.bids), yesAsk |-> BestPrice(book.asks),
        lastFetchedAt |-> book.timestamp]

\* the Market row's quote fields after processOrderbookUpdate(book) or
\* processPriceUpdate (a quote's fields are not told apart)
UpdateQuote(k) ==
  LET mk == MarketOf(k[1])
      q == IF k[2] = "price" THEN [kind |-> "quote"]
           ELSE IF mk \in DOMAIN cache /\ cache[mk] # Null THEN QuoteOf(cache[mk].book)
           ELSE Null
  IN IF HasRow(mk) /\ q # Null THEN [quotes EXCEPT ![mk] = q] ELSE quotes

\* the PriceSnapshot rows after processOrderbookUpdate's create
AppendSnapshot(k) ==
  LET mk == MarketOf(k[1])
  IN IF k[2] = "orderbook" /\ HasRow(mk)
     THEN [priceSnapshots EXCEPT ![mk] = @ + 1]
     ELSE priceSnapshots

\* this.stats.<counter>++ (the counters are kept as their parity)
Count(st, ok, kind) ==
  IF ~ok THEN [st EXCEPT !.errorsCount = 1 - @]
  ELSE IF kind = "orderbook" THEN [st EXCEPT !.orderbooksUpdated = 1 - @]
  ELSE [st EXCEPT !.quotesUpdated = 1 - @]

ForwardAlways(k, ok) ==
  [kind |-> BusKind(k[2]), platform |-> k[1], parity |-> 1 - bus.parity]

\* this.emit('orderbookUpdate' | 'priceUpdate', event), reached when nothing threw
Forward(k, ok) ==
  IF ok THEN [kind |-> BusKind(k[2]), platform |-> k[1], parity |-> 1 - bus.parity]
  ELSE bus

\* A suspended listener resumes and runs to its end.  Its store writes went
\* through (for a book: the Market row's quote fields, then the snapshot), its
\* counter is incremented and it forwards the event (this.emit); or one of
\* them threw, possibly after the quote fields were written, and the catch
\* counts an error.  The book of the event is the one the cache holds for its
\* market.
HandlerDone(k, ok) ==
  /\ handlers[k] > 0
  /\ priceSnapshots[MarketOf(k[1])] <= TrailLength
  /\ handlers' = [handlers EXCEPT ![k] = @ - 1]
  /\ bus' = Forward(k, ok)
  /\ stats' = Count(stats, ok, k[2])
  /\ IF ok
     THEN quotes' = UpdateQuote(k) /\ priceSnapshots' = AppendSnapshot(k)
     ELSE quotes' \in {quotes, UpdateQuote(k)} /\ UNCHANGED priceSnapshots
  /\ UNCHANGED <<now, cache, snap, enabled, listeners, kalshiPoll, orch, syncPending, health, ws, polls, detVars, jobs, resync, markets, missed, refVars, matcherVars, proc>>

Tick(d) ==
  /\ now + d <= MaxTicks * d
  /\ now' = now + d
  /\ UNCHANGED <<cache, snap, ingVars, detVars, syncVars, refVars, matcherVars, proc>>

\* seconds pass
Elapse(d) ==
  /\ now + d <= Horizon
  /\ now' = now + d
  /\ UNCHANGED <<cache, snap, ingVars, detVars, syncVars, refVars, matcherVars, proc>>


(***************************************************************************)
(* Targeted refresh of matched markets.                                    *)
(***************************************************************************)
\* the sequences that list each element of S once (the iteration order of a
\* Set filled from rows the store returns in no stated order)
Orderings(S) ==
  {q \in [1..Cardinality(S) -> S] : \A i, j \in 1..Cardinality(S) : i # j => q[i] # q[j]}

RECURSIVE SkipUnfetched(_)
\* the for loop up to its next await: a key of a venue that is neither
\* POLYMARKET nor KALSHI is passed over
SkipUnfetched(queue) ==
  IF queue # <<>> /\ queue[1][1] \notin {"POLYMARKET", "KALSHI"}
  THEN SkipUnfetched(Tail(queue))
  ELSE queue

\* the loop stands at queue: at a fetch, or past its end
RefreshAt(matched, queue, results) ==
  LET q == SkipUnfetched(queue)
  IN [pc |-> IF q = <<>> THEN "idle" ELSE "fetching",
      matched |-> matched, queue |-> q, results |-> results]

\* reviewMatch: a reviewer sets the status of a match
ReviewMatch(m, status) ==
  /\ m \in matches
  /\ m.status # status
  /\ matches' = (matches \ {m}) \cup {[m EXCEPT !.status = status]}
  /\ UNCHANGED <<now, cache, snap, ingVars, detVars, syncVars, refresh, matcherVars, proc>>

\* the orderbookInterval timer fires: updateMatchedMarketOrderbooks reads the
\* CONFIRMED matches, builds marketSet and starts on it
RefreshTick ==
  /\ orch = "running"
  /\ refresh.pc = "idle"
  /\ LET matched == {m \in matches : m.status = "CONFIRMED"}
         marketSet == {m.sourceMarketId : m \in matched} \cup {m.targetMarketId : m \in matched}
     IN \E q \in Orderings(marketSet) : refresh' = RefreshAt(matched, q, <<>>)
  /\ UNCHANGED <<now, cache, snap, ingVars, detVars, syncVars, matches, matcherVars, proc>>

\* the fetchOrderBook the loop awaits settles; its result is dropped
RefreshFetch(ok) ==
  /\ refresh.pc = "fetching"
  /\ LET key == Head(refresh.queue)
     IN /\ RecordCall(key[1], ok)
        /\ refresh' = RefreshAt(refresh.matched, Tail(refresh.queue),
                                Append(refresh.results, [key |-> key, ok |-> ok]))
  /\ UNCHANGED <<now, cache, snap, enabled, listeners, kalshiPoll, orch, syncPending, ws, polls, handlers, bus,
                 detVars, syncVars, matches, matcherVars, proc>>

(***************************************************************************)
(* The process: the API server (index.ts) and the worker (worker.ts), their *)
(* background loops and their shutdown handler.                            *)
(***************************************************************************)
\* the process once main() has started the loops: scan is runArbitrageScan,
\* matching is runMatchingJob, each asleep between iterations; http is the
\* server's httpServer; deadline is the server's 30 s force timer
Process(entry) ==
  [entry |-> entry, shuttingDown |-> FALSE, scan |-> "sleeping", matching |-> "sleeping",
   http |-> IF entry = "server" THEN "listening" ELSE "none",
   stores |-> "connected", deadline |-> FALSE, exit |-> "running"]

\* process.exit has not been called
Alive == proc.exit = "running"

\* PolymarketClient.disconnect(): the reconnect timer is cleared, a socket
\* that is not closed yet is closed and dropped
Disconnect(w) == IF w \in {"connecting", "open", "closing"} THEN "closing" ELSE "none"

\* a stop() that leaves the two interval timers running
StopKeepsTimers ==
  /\ orch' = orch
  /\ ws' = Disconnect(ws)
  /\ kalshiPoll' = [kalshiPoll EXCEPT !.interval = FALSE]

\* IngestionOrchestrator.stop(): isRunning = false, both intervals cleared,
\* the adapters disconnected (their polling intervals cleared)
Stop ==
  /\ orch' = "stopped"
  /\ ws' = Disconnect(ws)
  /\ kalshiPoll' = [kalshiPoll EXCEPT !.interval = FALSE]

\* stop() is called on a running orchestrator
StopCalled ==
  /\ orch = "running"
  /\ Stop
  /\ UNCHANGED <<now, cache, snap, enabled, listeners, syncPending, health, polls, handlers, bus,
                 detVars, syncVars, refVars, matcherVars, proc>>

\* a SIGTERM or SIGINT arrives: shutdown(signal) up to its first wait
Shutdown ==
  /\ orch \in {"running", "stopped"}
  /\ IF proc.shuttingDown
     THEN UNCHANGED <<orch, ws, kalshiPoll, proc>>
     ELSE /\ Stop
          /\ proc' = IF proc.entry = "server"
                     THEN [proc EXCEPT !.shuttingDown = TRUE, !.http = "closing",
                                       !.deadline = TRUE]
                     ELSE [proc EXCEPT !.shuttingDown = TRUE, !.stores = "disconnecting"]
  /\ UNCHANGED <<now, cache, snap, enabled, listeners, syncPending, health, polls, handlers, bus,
                 detVars, syncVars, refVars, matcherVars>>

\* server: the callback of httpServer.close runs and starts the disconnects
HttpClosed ==
  /\ proc.http = "closing"
  /\ proc' = [proc EXCEPT !.http = "closed", !.stores = "disconnecting"]
  /\ UNCHANGED <<now, cache, snap, ingVars, detVars, syncVars, refVars, matcherVars>>

\* disconnectDatabase and disconnectRedis have settled: process.exit(0), or
\* the rejection goes unhandled and ends the process
StoresDisconnected(ok) ==
  /\ proc.stores = "disconnecting"
  /\ proc' = IF ok THEN [proc EXCEPT !.stores = "disconnected", !.exit = "zero"]
             ELSE [proc EXCEPT !.exit = "nonzero"]
  /\ UNCHANGED <<now, cache, snap, ingVars, detVars, syncVars, refVars, matcherVars>>

\* server: the 30 s timer fires: process.exit(1)
DeadlineFires ==
  /\ proc.deadline
  /\ proc' = [proc EXCEPT !.exit = "nonzero"]
  /\ UNCHANGED <<now, cache, snap, ingVars, detVars, syncVars, refVars, matcherVars>>

\* `while (!isShuttingDown)` of loop l after its sleep: the next iteration
\* starts, or the loop ends
LoopWakes(l) ==
  /\ orch \in {"running", "stopped"}
  /\ proc[l] = "sleeping"
  /\ proc' = [proc EXCEPT ![l] = IF proc.shuttingDown THEN "ended" ELSE "working"]
  /\ UNCHANGED <<now, cache, snap, ingVars, detVars, syncVars, refVars, matcherVars>>

\* the iteration of loop l (the scan and its saves, or runMatching) is over
\* and the loop sleeps
LoopSleeps(l) ==
  /\ proc[l] = "working"
  /\ proc' = [proc EXCEPT ![l] = "sleeping"]
  /\ UNCHANGED <<now, cache, snap, ingVars, detVars, syncVars, refVars, matcherVars>>

(***************************************************************************)
(* Exact arithmetic on fractions.                                          *)
(***************************************************************************)
RECURSIVE Gcd(_, _)
Gcd(a, b) == IF b = 0 THEN a ELSE Gcd(b, a % b)

Abs(x) == IF x < 0 THEN -x ELSE x

Rat(n, d) ==
  LET sgn == IF d < 0 THEN -1 ELSE 1
      g == Gcd(Abs(n), Abs(d))
  IN [num |-> (sgn * n) \div g, den |-> (sgn * d) \div g]

RInt(n) == Rat(n, 1)
Cents(p) == Rat(p, 100)
RAdd(a, b) == Rat(a.num * b.den + b.num * a.den, a.den * b.den)
RSub(a, b) == Rat(a.num * b.den - b.num * a.den, a.den * b.den)
RMul(a, b) == Rat(a.num * b.num, a.den * b.den)
RDiv(a, b) == Rat(a.num * b.den, a.den * b.num)
RLt(a, b) == a.num * b.den < b.num * a.den
RLe(a, b) == a.num * b.den <= b.num * a.den
RMin(a, b) == IF RLt(b, a) THEN b ELSE a
RMax(a, b) == IF RLt(a, b) THEN b ELSE a
RAbs(a) == [num |-> Abs(a.num), den |-> a.den]
Min(a, b) == IF b < a THEN b ELSE a
Max(a, b) == IF a < b THEN b ELSE a

(***************************************************************************)
(* The market matcher.  A question, a rule text and the dates found in a   *)
(* question are the sets of their stemmed tokens, no token twice and none  *)
(* a stop word.  A sub-score is a count of ten-thousandths, the overall    *)
(* score a count of millionths, so that the weighted sum is exact.         *)
(***************************************************************************)
Unit == 10000
\* findMatches(0.65), in millionths
MinScore == 650000
\* the quick filter's 0.4
QuickFilter == 4000
Day == 86400
MaxDaysApart == 30

\* TfIdf over two documents, in thousandths: the squared idf of a term of
\* both documents, (1 + ln(2/3))^2, and of a term of one, (1 + ln(2/2))^2
IdfSquaredShared == 353
IdfSquaredOwn == 1000

RECURSIVE SqrtBetween(_, _, _)
\* the largest r in lo..hi with r * r <= x
SqrtBetween(x, lo, hi) ==
  IF lo = hi THEN lo
  ELSE LET mid == (lo + hi + 1) \div 2
       IN IF mid * mid <= x THEN SqrtBetween(x, mid, hi) ELSE SqrtBetween(x, lo, mid - 1)

Sqrt(x) == SqrtBetween(x, 0, 40000)

CosineScore(tokens1, tokens2) ==
  LET dotProduct == Cardinality(tokens1 \cap tokens2) * IdfSquaredShared
      norm1 == dotProduct + Cardinality(tokens1 \ tokens2) * IdfSquaredOwn
      norm2 == dotProduct + Cardinality(tokens2 \ tokens1) * IdfSquaredOwn
  IN IF norm1 > 0 /\ norm2 > 0 THEN (Unit * dotProduct) \div Sqrt(norm1 * norm2) ELSE 0

calculateSemanticScore(tokens1, tokens2) ==
  IF tokens1 = {} \/ tokens2 = {} THEN 0
  ELSE LET jaccardScore ==
             (Unit * Cardinality(tokens1 \cap tokens2)) \div Cardinality(tokens1 \cup tokens2)
       IN Min(Unit, (4 * jaccardScore + 6 * CosineScore(tokens1, tokens2)) \div 10)

calculateDateScore(dates1, dates2) ==
  IF dates1 = {} /\ dates2 = {} THEN 5000
  ELSE IF dates1 = {} \/ dates2 = {} THEN 3000
  ELSE IF dates1 \cap dates2 = {} THEN 1000
  ELSE (Unit * Cardinality(dates1 \cap dates2))
         \div Max(Cardinality(dates1), Cardinality(dates2))

relatedCategories ==
  { {"politics", "election", "government", "congress", "senate", "house"},
    {"crypto", "bitcoin", "ethereum", "cryptocurrency"},
    {"sports", "nfl", "nba", "mlb", "nhl", "soccer", "football"},
    {"economy", "fed", "rates", "inflation", "gdp", "unemployment"},
    {"entertainment", "oscars", "movies", "music", "awards"} }

calculateCategoryScore(cat1, cat2) ==
  IF cat1 = Null \/ cat2 = Null THEN 5000
  ELSE IF cat1.name = cat2.name THEN Unit
  ELSE IF \E group \in relatedCategories : cat1.name \in group /\ cat2.name \in group
       THEN 8000
  ELSE 3000

\* rule texts that are present hold at least one token
calculateResolutionScore(rules1, rules2) ==
  IF rules1 = Null /\ rules2 = Null THEN 5000
  ELSE IF rules1 = Null \/ rules2 = Null THEN 4000
  ELSE Max(2000, (Unit * Cardinality(rules1.tokens \cap rules2.tokens))
                   \div Max(Cardinality(rules1.tokens), Cardinality(rules2.tokens)))

\* the weighted overall score, in millionths
OverallScore(semanticScore, dateScore, categoryScore, resolutionScore) ==
  45 * semanticScore + 20 * dateScore + 10 * categoryScore + 25 * resolutionScore

MarketId(m) == <<m.platform, m.externalId>>

\* a prefilter that also skips a pair exactly thirty days apart
EndDatesApartFromThirty(m1, m2) ==
  /\ m1.endDate # Null /\ m2.endDate # Null
  /\ Abs(m1.endDate.at - m2.endDate.at) >= MaxDaysApart * Day

\* the prefilter: both end dates present and more than 30 days apart (an
\* end date is [at |-> seconds], a category [name |-> text], a rule text
\* [tokens |-> set], or Null)
EndDatesApart(m1, m2) ==
  /\ m1.endDate # Null /\ m2.endDate # Null
  /\ Abs(m1.endDate.at - m2.endDate.at) > MaxDaysApart * Day

Candidate(m1, m2) ==
  LET semanticScore == calculateSemanticScore(m1.question, m2.question)
      dateScore == calculateDateScore(m1.dates, m2.dates)
      categoryScore == calculateCategoryScore(m1.category, m2.category)
      resolutionScore == calculateResolutionScore(m1.rules, m2.rules)
  IN [sourceMarketId |-> MarketId(m1), targetMarketId |-> MarketId(m2),
      sourcePlatform |-> m1.platform, targetPlatform |-> m2.platform,
      semanticScore |-> semanticScore, dateScore |-> dateScore,
      categoryScore |-> categoryScore, resolutionScore |-> resolutionScore,
      overallScore |-> OverallScore(semanticScore, dateScore, categoryScore, resolutionScore)]

\* the candidates the nested loops of findMatches push, platforms being the
\* platforms of the ACTIVE markets in the order the store returned them
PushedCandidates(active, platforms) ==
  {Candidate(m1, m2) : <<m1, m2>> \in
     {pr \in active \X active :
        /\ \E i, j \in 1..Len(platforms) :
             i < j /\ platforms[i] = pr[1].platform /\ platforms[j] = pr[2].platform
        /\ ~EndDatesApart(pr[1], pr[2])
        /\ calculateSemanticScore(pr[1].question, pr[2].question) >= QuickFilter
        /\ Candidate(pr[1], pr[2]).overallScore >= MinScore}}

\* an upsert whose update puts the match back to review
UpsertMatchResetStatus(rows, c) ==
  LET old == {r \in rows : r.sourceMarketId = c.sourceMarketId
                             /\ r.targetMarketId = c.targetMarketId}
  IN (rows \ old) \cup
     {[sourceMarketId |-> c.sourceMarketId, targetMarketId |-> c.targetMarketId,
       sourcePlatform |-> c.sourcePlatform, targetPlatform |-> c.targetPlatform,
       semanticScore |-> c.semanticScore, resolutionScore |-> c.resolutionScore,
       dateScore |-> c.dateScore, overallScore |-> c.overallScore,
       status |-> "PENDING_REVIEW"]}

\* prisma.marketMatch.upsert on (sourceMarketId, targetMarketId): the row
\* has no category score; update leaves status and platforms
UpsertMatch(rows, c) ==
  LET old == {r \in rows : r.sourceMarketId = c.sourceMarketId
                             /\ r.targetMarketId = c.targetMarketId}
      status == IF old = {} THEN "PENDING_REVIEW" ELSE (CHOOSE r \in old : TRUE).status
  IN (rows \ old) \cup
     {[sourceMarketId |-> c.sourceMarketId, targetMarketId |-> c.targetMarketId,
       sourcePlatform |-> c.sourcePlatform, targetPlatform |-> c.targetPlatform,
       semanticScore |-> c.semanticScore, resolutionScore |-> c.resolutionScore,
       dateScore |-> c.dateScore, overallScore |-> c.overallScore, status |-> status]}

\* runMatching up to the first upsert: findMatches(0.65) returns the
\* candidates sorted by overall score, highest first
FindMatches ==
  /\ mpc \in {"idle", "done"}
  /\ LET active == {m \in markets : m.status = "ACTIVE"}
     IN \E platforms \in Orderings({m.platform : m \in active}) :
          \E sorted \in Orderings(PushedCandidates(active, platforms)) :
            /\ \A i \in 1..(Len(sorted) - 1) :
                 sorted[i].overallScore >= sorted[i + 1].overallScore
            /\ candidates' = sorted
            /\ mpc' = IF sorted = <<>> THEN "done" ELSE "saving"
  /\ UNCHANGED <<now, cache, snap, ingVars, detVars, syncVars, refVars, proc>>

\* saveMatches: the upsert of the next candidate settles; a failed one is
\* logged and the loop goes on
SaveMatch(ok) ==
  /\ mpc = "saving"
  /\ matches' = IF ok THEN UpsertMatch(matches, Head(candidates)) ELSE matches
  /\ candidates' = Tail(candidates)
  /\ mpc' = IF Tail(candidates) = <<>> THEN "done" ELSE "saving"
  /\ UNCHANGED <<now, cache, snap, ingVars, detVars, syncVars, refresh, proc>>


(***************************************************************************)
(* Arbitrage detector.                                                     *)
(***************************************************************************)
StaleThresholdMs == 3000      \* env.ORDERBOOK_STALE_THRESHOLD_MS
MinExecutableSize == 10       \* env.MIN_EXECUTABLE_SIZE_USD
MinConfidence == Rat(6, 10)   \* env.MIN_CONFIDENCE_SCORE
SizeCap == 10000
LiquidityBaseline == 1000
DepthLevels == 5

\* PLATFORM_FEES[platform].takerFee
TakerFee(platform) ==
  CASE platform = "POLYMARKET" -> Rat(2, 100)
    [] platform = "KALSHI" -> Rat(1, 100)
    [] platform = "PREDICTIT" -> Rat(5, 100)

\* the CONFIRMED MarketMatch the detector works on
SourceKey == <<"POLYMARKET", "P1">>
TargetKey == <<"KALSHI", "K1">>
MatchId == "M1"

RECURSIVE SumSizes(_, _)
\* side.slice(0, n).reduce((sum, l) => sum + l.size, 0)
SumSizes(side, n) ==
  IF side = <<>> \/ n = 0 THEN 0
  ELSE side[1].size + SumSizes(SubSeq(side, 2, Len(side)), n - 1)

AnalyzeOrderBookFreshAtThreshold(ob, t) ==
  [platform |-> ob.platform,
   bestBid |-> BestPrice(ob.bids),
   bestAsk |-> BestPrice(ob.asks),
   bidDepth |-> SumSizes(ob.bids, DepthLevels),
   askDepth |-> SumSizes(ob.asks, DepthLevels),
   levels |-> ob.bids \o ob.asks,
   dataAgeMs |-> t - ob.timestamp,
   isFresh |-> t - ob.timestamp <= StaleThresholdMs]

\* analyzeOrderBook(ob, 'YES') at Date.now() = t
AnalyzeOrderBook(ob, t) ==
  [platform |-> ob.platform,
   bestBid |-> BestPrice(ob.bids),
   bestAsk |-> BestPrice(ob.asks),
   bidDepth |-> SumSizes(ob.bids, DepthLevels),
   askDepth |-> SumSizes(ob.asks, DepthLevels),
   levels |-> ob.bids \o ob.asks,
   dataAgeMs |-> t - ob.timestamp,
   isFresh |-> t - ob.timestamp < StaleThresholdMs]

RECURSIVE FillLevels(_, _)
\* the loop of simulateFill: [cost (cents), filled] over the sorted levels
FillLevels(sorted, remaining) ==
  IF sorted = <<>> \/ remaining <= 0 THEN [cost |-> 0, filled |-> 0]
  ELSE LET fillSize == Min(sorted[1].size, remaining)
           rest == FillLevels(SubSeq(sorted, 2, Len(sorted)), remaining - fillSize)
       IN [cost |-> fillSize * sorted[1].price + rest.cost, filled |-> fillSize + rest.filled]

\* simulateFill(levels, totalDepth, side)
SimulateFill(levels, totalDepth, side) ==
  LET sorted == SortLevels(levels, side = "SELL")
  IN IF sorted = <<>>
     THEN [avgFillPrice |-> RInt(0), totalSize |-> 0, slippage |-> RInt(0)]
     ELSE LET f == FillLevels(sorted, totalDepth)
              avg == IF f.filled > 0 THEN Rat(f.cost, 100 * f.filled) ELSE RInt(0)
          IN [avgFillPrice |-> avg,
              totalSize |-> f.filled,
              slippage |-> RAbs(RSub(avg, Cents(sorted[1].price)))]

\* the levels handed to simulateFill for the buy leg and for the sell leg
BuyLevels(buyFrom) ==
  SelectSeq(buyFrom.levels,
            LAMBDA l : RLe(Cents(l.price), RMul(Cents(buyFrom.bestAsk.price), Rat(105, 100))))

SellLevels(sellTo) ==
  SelectSeq(sellTo.levels,
            LAMBDA l : RLe(RMul(Cents(sellTo.bestBid.price), Rat(95, 100)), Cents(l.price)))

CombinedSlippageSum(buySlippage, sellSlippage) == RAdd(buySlippage, sellSlippage)

\* combinedSlippage
CombinedSlippage(buySlippage, sellSlippage) ==
  RDiv(RAdd(buySlippage, sellSlippage), RInt(2))

CalculateConfidenceEqualWeights(buyFrom, sellTo, mq) ==
  LET maxAge == Max(buyFrom.dataAgeMs, sellTo.dataAgeMs)
      freshness == RMax(RInt(0), RSub(RInt(1), Rat(maxAge, StaleThresholdMs)))
      minDepth == Min(Min(buyFrom.bidDepth, buyFrom.askDepth), Min(sellTo.bidDepth, sellTo.askDepth))
      liquidity == RMin(RInt(1), Rat(minDepth, LiquidityBaseline))
  IN [overall |-> RDiv(RAdd(RAdd(freshness, liquidity), mq), RInt(3)),
      freshness |-> freshness,
      liquidity |-> liquidity,
      matchQuality |-> mq,
      dataAgeMs |-> maxAge]

\* calculateConfidence(buyFrom, sellTo, matchQuality)
CalculateConfidence(buyFrom, sellTo, mq) ==
  LET maxAge == Max(buyFrom.dataAgeMs, sellTo.dataAgeMs)
      freshness == RMax(RInt(0), RSub(RInt(1), Rat(maxAge, StaleThresholdMs)))
      minDepth == Min(Min(buyFrom.bidDepth, buyFrom.askDepth), Min(sellTo.bidDepth, sellTo.askDepth))
      liquidity == RMin(RInt(1), Rat(minDepth, LiquidityBaseline))
  IN [overall |-> RAdd(RAdd(RMul(freshness, Rat(35, 100)), RMul(liquidity, Rat(30, 100))),
                       RMul(mq, Rat(35, 100))),
      freshness |-> freshness,
      liquidity |-> liquidity,
      matchQuality |-> mq,
      dataAgeMs |-> maxAge]

\* checkBuyYesSellYes, the figures it computes once both top prices exist
ProfitAnalysis(buyFrom, sellTo, mq) ==
  LET ask == Cents(buyFrom.bestAsk.price)
      bid == Cents(sellTo.bestBid.price)
      grossSpread == RSub(bid, ask)
      buyFee == RMul(ask, TakerFee(buyFrom.platform))
      sellFee == RMul(bid, TakerFee(sellTo.platform))
      totalFees == RAdd(buyFee, sellFee)
      netSpreadPerShare == RSub(grossSpread, totalFees)
      maxBuySize == SimulateFill(BuyLevels(buyFrom), buyFrom.askDepth, "BUY")
      maxSellSize == SimulateFill(SellLevels(sellTo), sellTo.bidDepth, "SELL")
      maxExecutableSize == Min(Min(maxBuySize.totalSize, maxSellSize.totalSize), SizeCap)
      combinedSlippage == CombinedSlippage(maxBuySize.slippage, maxSellSize.slippage)
  IN [buyPrice |-> ask,
      sellPrice |-> bid,
      grossSpread |-> grossSpread,
      totalFees |-> totalFees,
      netSpreadPerShare |-> netSpreadPerShare,
      maxExecutableSize |-> maxExecutableSize,
      combinedSlippage |-> combinedSlippage,
      netProfit |-> RMul(RSub(netSpreadPerShare, combinedSlippage), RInt(maxExecutableSize)),
      confidence |-> CalculateConfidence(buyFrom, sellTo, mq)]

\* match.sourceMarket.sourceUrl and match.targetMarket.sourceUrl: the page of
\* each market of the match on its own venue
SourceUrl == [market |-> SourceKey]
TargetUrl == [market |-> TargetKey]

\* generateExecutionPlan(buyFrom, sellTo, size, buyFees, sellFees, match)
GenerateExecutionPlan(buyFrom, sellTo, size) ==
  << [order |-> 1, platform |-> buyFrom.platform, action |-> "BUY", outcome |-> "YES",
      quantity |-> size, limitPrice |-> Cents(buyFrom.bestAsk.price),
      platformUrl |-> SourceUrl],
     [order |-> 2, platform |-> sellTo.platform, action |-> "SELL", outcome |-> "YES",
      quantity |-> size, limitPrice |-> Cents(sellTo.bestBid.price),
      platformUrl |-> TargetUrl] >>

\* roi = netProfit / totalInvestment, where totalInvestment is
\* buyFrom.bestAsk * maxExecutableSize * (1 + buyFee) and buyFee is
\* buyFrom.bestAsk * buyFees.takerFee
Roi(buyFrom, pa) ==
  LET buyFee == RMul(pa.buyPrice, TakerFee(buyFrom.platform))
      totalInvestment == RMul(RMul(pa.buyPrice, RInt(pa.maxExecutableSize)), RAdd(RInt(1), buyFee))
  IN RDiv(pa.netProfit, totalInvestment)

\* the opportunity checkBuyYesSellYes returns
Opportunity(buyFrom, sellTo, pa) ==
  [matchId |-> MatchId,
   buyPlatform |-> buyFrom.platform,
   buyPrice |-> pa.buyPrice,
   sellPlatform |-> sellTo.platform,
   sellPrice |-> pa.sellPrice,
   grossSpread |-> pa.grossSpread,
   totalFees |-> pa.totalFees,
   estimatedSlippage |-> RMul(pa.combinedSlippage, RInt(pa.maxExecutableSize)),
   netProfit |-> pa.netProfit,
   maxExecutableSize |-> pa.maxExecutableSize,
   roi |-> Roi(buyFrom, pa),
   executionPlan |-> GenerateExecutionPlan(buyFrom, sellTo, pa.maxExecutableSize),
   confidence |-> pa.confidence]

CheckBuyYesSellYesNoSizeGate(buyFrom, sellTo, mq) ==
  IF buyFrom.bestAsk = Null \/ sellTo.bestBid = Null THEN Null
  ELSE LET pa == ProfitAnalysis(buyFrom, sellTo, mq)
       IN IF RLe(pa.grossSpread, RInt(0)) THEN Null
          ELSE IF RLe(pa.netSpreadPerShare, RInt(0)) THEN Null
          ELSE IF RLe(pa.netProfit, RInt(0)) THEN Null
          ELSE IF RLt(pa.confidence.overall, MinConfidence) THEN Null
          ELSE Opportunity(buyFrom, sellTo, pa)

CheckBuyYesSellYesGrossOnly(buyFrom, sellTo, mq) ==
  IF buyFrom.bestAsk = Null \/ sellTo.bestBid = Null THEN Null
  ELSE LET pa == ProfitAnalysis(buyFrom, sellTo, mq)
       IN IF RLe(pa.grossSpread, RInt(0)) THEN Null
          ELSE IF pa.maxExecutableSize < MinExecutableSize THEN Null
          ELSE IF RLt(pa.confidence.overall, MinConfidence) THEN Null
          ELSE Opportunity(buyFrom, sellTo, pa)

\* checkBuyYesSellYes(buyFrom, sellTo, match): an opportunity or null
CheckBuyYesSellYes(buyFrom, sellTo, mq) ==
  IF buyFrom.bestAsk = Null \/ sellTo.bestBid = Null THEN Null
  ELSE LET pa == ProfitAnalysis(buyFrom, sellTo, mq)
       IN IF RLe(pa.grossSpread, RInt(0)) THEN Null
          ELSE IF RLe(pa.netSpreadPerShare, RInt(0)) THEN Null
          ELSE IF pa.maxExecutableSize < MinExecutableSize THEN Null
          ELSE IF RLe(pa.netProfit, RInt(0)) THEN Null
          ELSE IF RLt(pa.confidence.overall, MinConfidence) THEN Null
          ELSE Opportunity(buyFrom, sellTo, pa)

PickBestFirst(strats, best) ==
  IF strats # <<>> /\ strats[1] # Null THEN strats[1]
  ELSE IF Len(strats) > 1 /\ strats[2] # Null THEN strats[2]
  ELSE best

RECURSIVE PickBest(_, _)
\* the loop of analyzeMatch over strategies
PickBest(strats, best) ==
  IF strats = <<>> THEN best
  ELSE LET st == strats[1]
           take == /\ st # Null
                   /\ RLt(RInt(0), st.netProfit)
                   /\ (best = Null \/ RLt(best.netProfit, st.netProfit))
       IN PickBest(SubSeq(strats, 2, Len(strats)), IF take THEN st ELSE best)

\* the row saveOpportunity creates
OpportunityRow(opp) ==
  [matchId |-> opp.matchId,
   grossSpread |-> opp.grossSpread,
   netSpread |-> RDiv(opp.netProfit, RInt(opp.maxExecutableSize)),
   totalFees |-> opp.totalFees,
   sourceYesPrice |-> opp.buyPrice,
   targetYesPrice |-> opp.sellPrice,
   maxProfitableSize |-> opp.maxExecutableSize,
   liquidityScore |-> opp.confidence.liquidity,
   estimatedSlippage |-> opp.estimatedSlippage,
   confidenceScore |-> opp.confidence.overall,
   freshnessScore |-> opp.confidence.freshness,
   consistencyScore |-> opp.confidence.matchQuality,
   sourceDataAge |-> opp.confidence.dataAgeMs,
   targetDataAge |-> opp.confidence.dataAgeMs,
   status |-> "ACTIVE"]

\* runArbitrageScan: scanForOpportunities finds the CONFIRMED match
ScanStart ==
  /\ dpc = "idle"
  /\ scans < MaxScans
  /\ dpc' = "source"
  /\ UNCHANGED <<now, cache, snap, ingVars, matchQuality, sourceOB, targetOB, scanAt, strategies, bestOpp, opportunities, scans, syncVars, refVars, matcherVars, proc>>

\* analyzeMatch: await this.getOrderBook(source)
ReadSource ==
  /\ dpc = "source"
  /\ sourceOB' = CacheGet(SourceKey)
  /\ dpc' = "target"
  /\ UNCHANGED <<now, cache, snap, ingVars, matchQuality, targetOB, scanAt, strategies, bestOpp, opportunities, scans, syncVars, refVars, matcherVars, proc>>

\* analyzeMatch: await this.getOrderBook(target)
ReadTarget ==
  /\ dpc = "target"
  /\ targetOB' = CacheGet(TargetKey)
  /\ dpc' = "analyze"
  /\ UNCHANGED <<now, cache, snap, ingVars, matchQuality, sourceOB, scanAt, strategies, bestOpp, opportunities, scans, syncVars, refVars, matcherVars, proc>>

\* analyzeMatch from the null check to its return, and scanForOpportunities'
\* netProfit > 0 filter
Analyze ==
  /\ dpc = "analyze"
  /\ scanAt' = now
  /\ IF sourceOB = Null \/ targetOB = Null
     THEN strategies' = <<>> /\ bestOpp' = Null
     ELSE LET sourceAnalysis == AnalyzeOrderBook(sourceOB, now)
              targetAnalysis == AnalyzeOrderBook(targetOB, now)
              mq == Rat(matchQuality, 100)
              strats == << CheckBuyYesSellYes(sourceAnalysis, targetAnalysis, mq),
                           CheckBuyYesSellYes(targetAnalysis, sourceAnalysis, mq) >>
          IN IF ~sourceAnalysis.isFresh \/ ~targetAnalysis.isFresh
             THEN strategies' = <<>> /\ bestOpp' = Null
             ELSE strategies' = strats /\ bestOpp' = PickBest(strats, Null)
  /\ dpc' = "save"
  /\ UNCHANGED <<now, cache, snap, ingVars, matchQuality, sourceOB, targetOB, opportunities, scans, syncVars, refVars, matcherVars, proc>>

\* runArbitrageScan: saveOpportunity for each opportunity found (the create
\* may throw, which is logged), then the wait before the next scan
Save(ok) ==
  /\ dpc = "save"
  /\ opportunities' = IF bestOpp # Null /\ ok
                      THEN opportunities \cup {OpportunityRow(bestOpp)}
                      ELSE opportunities
  /\ scans' = scans + 1
  /\ dpc' = "idle"
  /\ UNCHANGED <<now, cache, snap, ingVars, matchQuality, sourceOB, targetOB, scanAt, strategies, bestOpp, syncVars, refVars, matcherVars, proc>>

(***************************************************************************)
(* Specifications.                                                         *)
(***************************************************************************)
IdleDetector ==
  /\ matchQuality = 90
  /\ dpc = "off"
  /\ snap = {}
  /\ sourceOB = Null /\ targetOB = Null
  /\ scanAt = 0
  /\ strategies = <<>>
  /\ bestOpp = Null
  /\ opportunities = {}
  /\ scans = 0

\* the cache of a fresh Redis
EmptyCache == [k \in CacheKeys |-> Null]

\* updateMatchedMarketOrderbooks not yet run: matched is what its findMany
\* returned, queue the keys of marketSet still to go (the head being fetched),
\* results the fetches that settled, in order
IdleRefresh == [pc |-> "idle", matched |-> {}, queue |-> <<>>, results |-> <<>>]

\* nothing stored, no refresh and no matcher run under way
IdleStore ==
  /\ markets = {}
  /\ matches = {}
  /\ refresh = IdleRefresh
  /\ mpc = "idle"
  /\ proc = Process("server")
  /\ candidates = <<>>

InitIngestion(configs) ==
  /\ now = 0
  /\ stats = [marketsIngested |-> 0, orderbooksUpdated |-> 0, quotesUpdated |-> 0,
              errorsCount |-> 0, lastFullSyncAt |-> Null]
  /\ listeners = [v \in Venues |-> 0]
  /\ kalshiPoll = [queries |-> 0, interval |-> FALSE]
  /\ quotes = [k \in MarketKeys |-> Null]
  /\ priceSnapshots = [k \in MarketKeys |-> 0]
  /\ jobs = [v \in Venues |-> Null]
  /\ resync = FALSE
  /\ missed = [k \in MarketKeys |-> 0]
  /\ enabled \in configs
  /\ orch = "idle"
  /\ syncPending = {}
  /\ health = [v \in Venues |-> InitialHealth]
  /\ ws = "none"
  /\ polls = [i \in 1..MaxPolls |-> IdlePoll]
  /\ handlers = [k \in HandlerKeys |-> 0]
  /\ bus = [kind |-> "none", platform |-> "none", parity |-> 0]

\* Adapter health: one venue at a time (the adapters share no state), one
\* polling iteration at a time, every call may fail.
InitHealth == InitIngestion({{v} : v \in Venues}) /\ cache = EmptyCache /\ IdleDetector /\ IdleStore

NextHealth ==
  \/ Start
  \/ \E v \in Venues, ok \in BOOLEAN : SyncResponse(v, ok, <<>>)
  \/ StartFinish
  \/ FullSyncTick
  \/ FullSyncDone
  \/ WsOpen
  \/ WsClose
  \/ WsReconnect
  \/ WsError
  \/ \E ob \in WsBooks(now) : WsBookMessage(ob)
  \/ WsPriceMessage
  \/ KalshiPollingStarted
  \/ \E i \in {1} : KalshiPollTick(i)
  \/ \E i \in {1}, ok \in BOOLEAN : KalshiQuoteResponse(i, ok)
  \/ \E i \in {1}, ok \in BOOLEAN, raw \in {AnsweringKalshiRaw, MalformedKalshiRaw} :
       KalshiBookResponse(i, ok, raw)
  \/ \E ok \in BOOLEAN : PredictItPoll(ok)
  \/ \E k \in HandlerKeys, ok \in BOOLEAN : HandlerDone(k, ok)

SpecHealth == InitHealth /\ [][NextHealth]_vars

\* Ingestion of order books: one order-book venue at a time, every call
\* answered, the content and the timing of the answers free.
InitIngest == InitIngestion({{"POLYMARKET"}, {"KALSHI"}}) /\ cache = EmptyCache /\ IdleDetector /\ IdleStore

NextIngest ==
  \/ Start
  \/ \E v \in Venues : SyncResponse(v, TRUE, <<>>)
  \/ StartFinish
  \/ WsOpen
  \/ \E ob \in WsBooks(now) : WsBookMessage(ob)
  \/ KalshiPollingStarted
  \/ \E i \in 1..MaxPolls : KalshiPollTick(i)
  \/ \E i \in 1..MaxPolls : KalshiQuoteResponse(i, TRUE)
  \/ \E i \in 1..MaxPolls, raw \in KalshiRawBooks : KalshiBookResponse(i, TRUE, raw)
  \/ \E k \in HandlerKeys, ok \in BOOLEAN : HandlerDone(k, ok)
  \/ \E d \in TickSteps : Tick(d)

SpecIngest == InitIngest /\ [][NextIngest]_vars

\* Expiry of cache entries: one order-book venue, every call answered, one
\* polling iteration at a time, the clock running for seconds.
InitTtl == InitIngestion({{"POLYMARKET"}, {"KALSHI"}}) /\ cache = EmptyCache /\ IdleDetector /\ IdleStore

NextTtl ==
  \/ Start
  \/ \E v \in Venues : SyncResponse(v, TRUE, <<>>)
  \/ StartFinish
  \/ WsOpen
  \/ \E ob \in WsBooks(now) : WsBookMessage(ob)
  \/ KalshiPollingStarted
  \/ \E i \in {1} : KalshiPollTick(i)
  \/ \E i \in {1} : KalshiQuoteResponse(i, TRUE)
  \/ \E i \in {1} : KalshiBookResponse(i, TRUE, AnsweringKalshiRaw)
  \/ \E k \in HandlerKeys : HandlerDone(k, TRUE)
  \/ \E d \in ElapseSteps : Elapse(d)

SpecTtl == InitTtl /\ [][NextTtl]_vars

\* Full syncs: what a venue lists, and whether its fetch and each store write
\* succeed, are free; a periodic full sync follows a full sync that left no
\* venue with an error.
Listed(v, id) == Market(v, id, {"will", "it", "rain"}, {}, Null, Null, Null)

Listings(v) ==
  CASE v = "POLYMARKET" -> {<<>>, << Listed(v, "P1") >>, << Listed(v, "P1"), Listed(v, "P2") >>}
    [] v = "KALSHI" -> {<<>>, << Listed(v, "K1") >>, << Listed(v, "K1"), Listed(v, "K2") >>}
    [] v = "PREDICTIT" -> {<< Listed(v, "7-1") >>}

InitSync ==
  /\ InitIngestion({{"POLYMARKET", "KALSHI"}, {"POLYMARKET", "KALSHI", "PREDICTIT"}})
  /\ cache = EmptyCache
  /\ IdleDetector
  /\ IdleStore

NextSync ==
  \/ Start
  \/ \E v \in Venues, ok \in BOOLEAN : \E ms \in Listings(v) : SyncResponse(v, ok, ms)
  \/ \E v \in Venues, ok \in BOOLEAN : SyncUpsert(v, ok)
  \/ StartFinish
  \/ (\A v \in Venues : health[v].consecutiveErrors = 0) /\ FullSyncTick
  \/ FullSyncDone

SpecSync == InitSync /\ [][NextSync]_vars

\* Targeted refresh: three matches over five markets, confirmed or not, the
\* reviewer free to change that; an iteration starts while no venue has an
\* error.
ReviewedMatch(source, target, status) ==
  [sourceMarketId |-> source, targetMarketId |-> target,
   sourcePlatform |-> source[1], targetPlatform |-> target[1],
   semanticScore |-> 9000, resolutionScore |-> 9000, dateScore |-> 10000,
   overallScore |-> 930000, status |-> status]

MatchedPairs ==
  { << <<"POLYMARKET", "P1">>, <<"KALSHI", "K1">> >>,
    << <<"POLYMARKET", "P1">>, <<"KALSHI", "K2">> >>,
    << <<"KALSHI", "K1">>, <<"PREDICTIT", "7-1">> >> }

InitRefresh ==
  /\ InitIngestion({{"POLYMARKET", "KALSHI", "PREDICTIT"}})
  /\ cache = EmptyCache
  /\ IdleDetector
  /\ markets = {}
  /\ \E st \in [MatchedPairs -> {"PENDING_REVIEW", "CONFIRMED"}] :
       matches = {ReviewedMatch(p[1], p[2], st[p]) : p \in MatchedPairs}
  /\ refresh = IdleRefresh
  /\ mpc = "idle"
  /\ proc = Process("server")
  /\ candidates = <<>>

NextRefresh ==
  \/ Start
  \/ \E v \in Venues : SyncResponse(v, TRUE, <<>>)
  \/ StartFinish
  \/ \E m \in matches, st \in {"CONFIRMED", "REJECTED"} : ReviewMatch(m, st)
  \/ (\A v \in Venues : health[v].consecutiveErrors = 0) /\ RefreshTick
  \/ \E ok \in BOOLEAN : RefreshFetch(ok)

SpecRefresh == InitRefresh /\ [][NextRefresh]_vars

\* The matcher over five markets: each is unlisted, ACTIVE or CLOSED.  P1
\* and K1 ask the same question and end exactly 30 days apart; P2 asks it
\* too and has neither end date nor rules; K2 shares two of four question
\* tokens with them and has no end date; 7-1 asks the same question, ends
\* 31 days after P1 and one day after K1, and has neither category nor
\* rules.
BtcQuestion == {"bitcoin", "reach", "100k", "2025"}
BtcRules == [tokens |-> {"coinbas", "close", "price"}]
Crypto == [name |-> "crypto"]
EndsOn(day) == [at |-> day * Day]

Catalogue ==
  { Market("POLYMARKET", "P1", BtcQuestion, {"2025"}, Crypto, EndsOn(100), BtcRules),
    Market("POLYMARKET", "P2", BtcQuestion, {"2025"}, Crypto, Null, Null),
    Market("KALSHI", "K1", BtcQuestion, {"2025"}, Crypto, EndsOn(130), BtcRules),
    Market("KALSHI", "K2", {"bitcoin", "hit", "150k", "2025"}, {"2025"}, Crypto, Null, BtcRules),
    Market("PREDICTIT", "7-1", BtcQuestion, {"2025"}, Null, EndsOn(131), Null) }

Stored(m, status) ==
  [platform |-> m.platform, externalId |-> m.externalId, question |-> m.question,
   dates |-> m.dates, category |-> m.category, endDate |-> m.endDate,
   rules |-> m.rules, status |-> status]

InitMatch ==
  /\ InitIngestion({{"POLYMARKET", "KALSHI", "PREDICTIT"}})
  /\ cache = EmptyCache
  /\ IdleDetector
  /\ \E st \in [Catalogue -> {"unlisted", "ACTIVE", "CLOSED"}] :
       markets = {Stored(m, st[m]) : m \in {c \in Catalogue : st[c] # "unlisted"}}
  /\ matches = {}
  /\ refresh = IdleRefresh
  /\ mpc = "idle"
  /\ proc = Process("server")
  /\ candidates = <<>>

NextMatch ==
  \/ FindMatches
  \/ \E ok \in BOOLEAN : SaveMatch(ok)

SpecMatch == InitMatch /\ [][NextMatch]_vars

\* The matcher and the reviewer over the three markets that ask the same
\* question and have an end date, each unlisted, ACTIVE or CLOSED.
InitReview ==
  /\ InitIngestion({{"POLYMARKET", "KALSHI", "PREDICTIT"}})
  /\ cache = EmptyCache
  /\ IdleDetector
  /\ \E st \in [{c \in Catalogue : c.endDate # Null} -> {"unlisted", "ACTIVE", "CLOSED"}] :
       markets = {Stored(m, st[m]) : m \in {c \in DOMAIN st : st[c] # "unlisted"}}
  /\ matches = {}
  /\ refresh = IdleRefresh
  /\ mpc = "idle"
  /\ proc = Process("server")
  /\ candidates = <<>>

NextReview ==
  \/ FindMatches
  \/ \E ok \in BOOLEAN : SaveMatch(ok)
  \/ \E m \in matches, st \in {"CONFIRMED", "REJECTED"} : ReviewMatch(m, st)

SpecReview == InitReview /\ [][NextReview]_vars

\* Shutdown of either entry point while the orchestrator runs: one
\* CONFIRMED match to refresh, venues that answer, empty listings.
InitShutdown ==
  /\ InitIngestion({{"POLYMARKET", "KALSHI", "PREDICTIT"}})
  /\ cache = EmptyCache
  /\ IdleDetector
  /\ markets = {}
  /\ matches = {ReviewedMatch(<<"POLYMARKET", "P1">>, <<"KALSHI", "K1">>, "CONFIRMED")}
  /\ refresh = IdleRefresh
  /\ mpc = "idle"
  /\ candidates = <<>>
  /\ \E entry \in {"server", "worker"} : proc = Process(entry)

NextShutdown ==
  \/ Alive /\ orch = "idle" /\ Start
  \/ Alive /\ \E v \in Venues : SyncResponse(v, TRUE, <<>>)
  \/ Alive /\ StartFinish
  \/ Alive /\ FullSyncTick
  \/ Alive /\ FullSyncDone
  \/ Alive /\ WsOpen
  \/ Alive /\ WsClose
  \/ Alive /\ WsReconnect
  \/ Alive /\ RefreshTick
  \/ Alive /\ RefreshFetch(TRUE)
  \/ Alive /\ \E l \in {"scan", "matching"} : LoopWakes(l)
  \/ Alive /\ \E l \in {"scan", "matching"} : LoopSleeps(l)
  \/ Alive /\ Shutdown
  \/ Alive /\ HttpClosed
  \/ Alive /\ \E ok \in BOOLEAN : StoresDisconnected(ok)
  \/ Alive /\ DeadlineFires

SpecShutdown == InitShutdown /\ [][NextShutdown]_vars

\* Requests in flight: Kalshi polling, the periodic full sync and the
\* targeted refresh of one CONFIRMED match side by side, every call answered.
InitLimit ==
  /\ InitIngestion({{"POLYMARKET", "KALSHI"}})
  /\ cache = EmptyCache
  /\ IdleDetector
  /\ markets = {}
  /\ matches = {ReviewedMatch(<<"POLYMARKET", "P1">>, <<"KALSHI", "K1">>, "CONFIRMED")}
  /\ refresh = IdleRefresh
  /\ mpc = "idle"
  /\ proc = Process("server")
  /\ candidates = <<>>

NextLimit ==
  \/ Start
  \/ \E v \in Venues : SyncResponse(v, TRUE, <<>>)
  \/ StartFinish
  \/ FullSyncTick
  \/ FullSyncDone
  \/ KalshiPollingStarted
  \/ \E i \in 1..MaxPolls : KalshiPollTick(i)
  \/ \E i \in 1..MaxPolls : KalshiQuoteResponse(i, TRUE)
  \/ \E i \in 1..MaxPolls : KalshiBookResponse(i, TRUE, AnsweringKalshiRaw)
  \/ \E k \in HandlerKeys : HandlerDone(k, TRUE)
  \/ RefreshTick
  \/ RefreshFetch(TRUE)

SpecLimit == InitLimit /\ [][NextLimit]_vars

\* The detector over the books a cache can hold: the cache is given, the
\* detector scans while the clock advances.
DetectorAskSides ==
  { <<>>,
    << Level(40, 500) >>,
    << Level(40, 20), Level(41, 200) >>,
    << Level(49, 500) >>,
    << Level(60, 500) >>,
    << Level(40, 20), Level(50, 200) >> }

DetectorBidSides ==
  { <<>>,
    << Level(46, 500) >>,
    << Level(50, 500) >>,
    << Level(35, 500) >>,
    << Level(62, 500) >>,
    << Level(46, 5) >> }

InitAges == {-500, 500, 2500}
MatchScores == {65, 90}

\* an entry whose book is stamped age ms before the scan starts, written when
\* it was stamped; a venue's stamp (Polymarket's data.timestamp) can be ahead
\* of this host's clock, and the entry is then one written as the scan starts
DetectorEntries(k) ==
  {Null} \cup
  { [book |-> Book(k[1], k[2], 0 - age, b, a),
     writtenAt |-> Min(0 - age, 0),
     expiresAt |-> Min(0 - age, 0) + OrderbookTtlMs] :
      age \in InitAges, b \in DetectorBidSides, a \in DetectorAskSides }

InitDetect ==
  /\ InitIngestion({{"POLYMARKET", "KALSHI"}})
  /\ IdleStore
  /\ \E s \in DetectorEntries(SourceKey), t \in DetectorEntries(TargetKey) :
       cache = [k \in CacheKeys |-> IF k = SourceKey THEN s ELSE t]
  /\ matchQuality \in MatchScores
  /\ dpc = "idle"
  /\ snap = {<<cache[SourceKey], cache[TargetKey]>>}
  /\ sourceOB = Null /\ targetOB = Null
  /\ scanAt = 0
  /\ strategies = <<>>
  /\ bestOpp = Null
  /\ opportunities = {}
  /\ scans = 0

NextDetect ==
  \/ ScanStart
  \/ ReadSource
  \/ ReadTarget
  \/ Analyze
  \/ \E ok \in BOOLEAN : Save(ok)
  \/ \E d \in TickSteps : Tick(d)

SpecDetect == InitDetect /\ [][NextDetect]_vars

\* The detector beside the ingestion that feeds its cache: both venues
\* enabled, every call answered, the push channel and Kalshi polling writing
\* the two books of the match while analyzeMatch reads them.
PolymarketUpdates(t) ==
  { Book("POLYMARKET", "P1", t, b, a) :
      b \in { << Level(45, 100) >>, << Level(47, 100) >> },
      a \in { << Level(55, 100) >> } }

InitSnapshot ==
  /\ InitIngestion({{"POLYMARKET", "KALSHI"}})
  /\ IdleStore
  /\ cache = EmptyCache
  /\ matchQuality = 90
  /\ dpc = "idle"
  /\ snap = {<<cache[SourceKey], cache[TargetKey]>>}
  /\ sourceOB = Null /\ targetOB = Null
  /\ scanAt = 0
  /\ strategies = <<>>
  /\ bestOpp = Null
  /\ opportunities = {}
  /\ scans = 0

NextSnapshot ==
  \/ Start
  \/ \E v \in Venues : SyncResponse(v, TRUE, <<>>)
  \/ StartFinish
  \/ WsOpen
  \/ \E ob \in PolymarketUpdates(now) : WsBookMessage(ob)
  \/ KalshiPollingStarted
  \/ \E i \in {1} : KalshiPollTick(i)
  \/ \E i \in {1} : KalshiQuoteResponse(i, TRUE)
  \/ \E i \in {1} : KalshiBookResponse(i, TRUE, AnsweringKalshiRaw)
  \/ \E k \in HandlerKeys : HandlerDone(k, TRUE)
  \/ orch = "running" /\ ScanStart
  \/ ReadSource
  \/ ReadTarget
  \/ Analyze
  \/ \E ok \in BOOLEAN : Save(ok)

SpecSnapshot == InitSnapshot /\ [][NextSnapshot]_vars

\* The store writes of the order-book handler: Polymarket alone, its market P1
\* listed by the full sync, books with and without levels pushed one at a
\* time, each store write free to fail.
TrailBooks(t) == PolymarketUpdates(t) \cup {Book("POLYMARKET", "P1", t, <<>>, <<>>)}

InitTrail == InitIngestion({{"POLYMARKET"}}) /\ cache = EmptyCache /\ IdleDetector /\ IdleStore

NextTrail ==
  \/ Start
  \/ \E v \in Venues : SyncResponse(v, TRUE, << Listed(v, "P1") >>)
  \/ \E v \in Venues : SyncUpsert(v, TRUE)
  \/ StartFinish
  \/ WsOpen
  \/ InFlight = 0 /\ \E ob \in TrailBooks(now) : WsBookMessage(ob)
  \/ \E k \in HandlerKeys, ok \in BOOLEAN : HandlerDone(k, ok)

SpecTrail == InitTrail /\ [][NextTrail]_vars

\* start() and stop() called in turn: both order-book venues, every call
\* answered, the Kalshi market query free to resolve before or after a stop().
InitRestart == InitIngestion({{"POLYMARKET", "KALSHI"}}) /\ cache = EmptyCache /\ IdleDetector /\ IdleStore

NextRestart ==
  \/ Start
  \/ \E v \in Venues : SyncResponse(v, TRUE, <<>>)
  \/ StartFinish
  \/ KalshiPollingStarted
  \/ StopCalled
  \/ WsOpen
  \/ \E ob \in WsBooks(now) : WsBookMessage(ob)
  \/ \E i \in {1} : KalshiPollTick(i)
  \/ \E i \in {1} : KalshiQuoteResponse(i, TRUE)
  \/ \E i \in {1} : KalshiBookResponse(i, TRUE, AnsweringKalshiRaw)
  \/ \E k \in HandlerKeys : HandlerDone(k, TRUE)

SpecRestart == InitRestart /\ [][NextRestart]_vars

(***************************************************************************)
(* Claims on adapter health and event publication.                         *)
(***************************************************************************)
SuccessfulCall(v) ==
  \/ SyncResponse(v, TRUE, <<>>)
  \/ /\ v = "KALSHI"
     /\ \E i \in 1..MaxPolls :
          \/ KalshiQuoteResponse(i, TRUE)
          \/ \E raw \in KalshiRawBooks : KalshiBookResponse(i, TRUE, raw)
  \/ v = "PREDICTIT" /\ PredictItPoll(TRUE)

FailedCall(v) ==
  \/ SyncResponse(v, FALSE, <<>>)
  \/ /\ v = "KALSHI"
     /\ \E i \in 1..MaxPolls :
          \/ KalshiQuoteResponse(i, FALSE)
          \/ KalshiBookResponse(i, FALSE, AnsweringKalshiRaw)
  \/ v = "PREDICTIT" /\ PredictItPoll(FALSE)
  \/ v = "POLYMARKET" /\ WsError

\* C1: in every adapter, a step that is a successful call leaves the status
\* HEALTHY and consecutive_errors 0; a step that is a failed call adds one to
\* consecutive_errors and leaves the status DEGRADED when the new count is in
\* 3..9 and OFFLINE when it is 10 or more.
C1_HealthTransitions ==
  [][\A v \in Venues :
       /\ SuccessfulCall(v) =>
            health'[v].status = "HEALTHY" /\ health'[v].consecutiveErrors = 0
       /\ FailedCall(v) =>
            LET n == health'[v].consecutiveErrors
            IN /\ n = health[v].consecutiveErrors + 1
               /\ (n >= OfflineThreshold => health'[v].status = "OFFLINE")
               /\ (n >= DegradedThreshold /\ n < OfflineThreshold => health'[v].status = "DEGRADED")
    ]_vars

\* an adapter that went from HEALTHY through ten failed calls
C1_Witness ==
  \E v \in Venues : health[v].consecutiveErrors = OfflineThreshold /\ health[v].status = "OFFLINE"
                    /\ orch = "running"

\* C2: while a venue's adapter is OFFLINE the orchestrator forwards no
\* orderbookUpdate or priceUpdate event with that venue's tag.
C2_NoEventWhileOffline ==
  [][\A v \in Venues :
       health[v].status = "OFFLINE" => ~(bus' # bus /\ bus'.platform = v)]_vars

(***************************************************************************)
(* Claims on the order books written to the cache.                         *)
(***************************************************************************)
StrictlyOrdered(side, desc) ==
  \A i \in 1..(Len(side) - 1) : Precedes(side[i], side[i + 1], desc)

WellFormed(ob) ==
  /\ (ob.bids # <<>> /\ ob.asks # <<>>) => ob.bids[1].price < ob.asks[1].price
  /\ StrictlyOrdered(ob.bids, TRUE)
  /\ StrictlyOrdered(ob.asks, FALSE)
  /\ \A i \in 1..Len(ob.bids) : ob.bids[i].price \in 0..100 /\ ob.bids[i].size >= 0
  /\ \A i \in 1..Len(ob.asks) : ob.asks[i].price \in 0..100 /\ ob.asks[i].size >= 0

\* C4: every order book in the cache is uncrossed, strictly monotone on both
\* sides, with prices in [0,1] and sizes >= 0.
C4_CachedBooksWellFormed ==
  \A k \in CacheKeys : cache[k] # Null => WellFormed(cache[k].book)

\* C5: the timestamp of the book cached under a key never decreases.
C5_TimestampsNeverDecrease ==
  [][\A k \in CacheKeys :
       (cache[k] # Null /\ now < cache[k].expiresAt /\ cache'[k] # Null)
         => cache'[k].book.timestamp >= cache[k].book.timestamp]_vars

(***************************************************************************)
(* Claims on the arbitrage detector.                                       *)
(***************************************************************************)
\* the scan has run analyzeMatch on the books it read
Analyzed == dpc = "save"

\* analyzeMatch went past the staleness check
Evaluated == Analyzed /\ strategies # <<>>

\* the two directional candidates: the book bought from, the book sold to and
\* what checkBuyYesSellYes returned for them
Candidates ==
  IF ~Evaluated THEN {}
  ELSE { [buy |-> sourceOB, sell |-> targetOB, result |-> strategies[1]],
         [buy |-> targetOB, sell |-> sourceOB, result |-> strategies[2]] }

\* C3: every opportunity persisted with status ACTIVE has a positive net
\* profit, a size of at least MIN_EXECUTABLE_SIZE_USD, a confidence of at
\* least MIN_CONFIDENCE_SCORE and data ages of at most the stale threshold.
C3_PersistedOpportunitiesPassGates ==
  \A row \in opportunities :
    row.status = "ACTIVE" =>
      /\ RLt(RInt(0), RMul(row.netSpread, RInt(row.maxProfitableSize)))
      /\ row.maxProfitableSize >= MinExecutableSize
      /\ RLe(MinConfidence, row.confidenceScore)
      /\ Max(row.sourceDataAge, row.targetDataAge) <= StaleThresholdMs

C3_Witness ==
  \E row \in opportunities : row.status = "ACTIVE" /\ row.sourceDataAge > 0

\* C6: for the confirmed match no opportunity comes out of a scan that found
\* a book absent from the cache or aged the stale threshold or more, and in
\* the stale case no candidate is evaluated at all.
C6_NoOpportunityOnAbsentOrStale ==
  Analyzed =>
    ( ( \/ sourceOB = Null
        \/ targetOB = Null
        \/ scanAt - sourceOB.timestamp >= StaleThresholdMs
        \/ scanAt - targetOB.timestamp >= StaleThresholdMs )
      => bestOpp = Null /\ strategies = <<>> )

C6_Witness ==
  /\ Analyzed
  /\ sourceOB # Null /\ targetOB # Null
  /\ scanAt - sourceOB.timestamp = StaleThresholdMs
  /\ BestPrice(sourceOB.asks) # Null /\ BestPrice(targetOB.bids) # Null
  /\ BestPrice(sourceOB.asks).price < BestPrice(targetOB.bids).price
  /\ bestOpp = Null

\* C7: a directional candidate yields no opportunity when the buy book has
\* no best ask, the sell book has no best bid, bid - ask <= 0, or
\* bid - ask - ask * taker(buy venue) - bid * taker(sell venue) <= 0.
C7_NoOpportunityWithoutNetSpread ==
  \A c \in Candidates :
    LET a == BestPrice(c.buy.asks)
        b == BestPrice(c.sell.bids)
    IN ( \/ a = Null
         \/ b = Null
         \/ b.price <= a.price
         \/ RLe(RSub(RSub(RSub(Cents(b.price), Cents(a.price)),
                          RMul(Cents(a.price), TakerFee(c.buy.platform))),
                     RMul(Cents(b.price), TakerFee(c.sell.platform))),
                RInt(0)) )
       => c.result = Null

\* ask 0.49 on the 2% venue, bid 0.50 on the 1% venue, deep and fresh
C7_Witness ==
  /\ Evaluated
  /\ sourceOB.asks = << Level(49, 500) >>
  /\ targetOB.bids = << Level(50, 500) >>
  /\ scanAt - sourceOB.timestamp < StaleThresholdMs \div 2
  /\ strategies[1] = Null

\* the levels of a side within the 5% band of its top, and their total size
AsksInBand(ob) ==
  SelectSeq(ob.asks, LAMBDA l : 100 * l.price <= 105 * BestPrice(ob.asks).price)

BidsInBand(ob) ==
  SelectSeq(ob.bids, LAMBDA l : 100 * l.price >= 95 * BestPrice(ob.bids).price)

TotalSize(side) == SumSizes(side, Len(side))

\* C8: the size of an emitted opportunity is the least of the total size of
\* the buy book's asks within 5% above its best ask, the total size of the
\* sell book's bids within 5% below its best bid, and 10000.
C8_SizeFromAsksAndBids ==
  \A c \in Candidates :
    c.result # Null =>
      c.result.maxExecutableSize =
        Min(Min(TotalSize(AsksInBand(c.buy)), TotalSize(BidsInBand(c.sell))), SizeCap)

\* the size-weighted average price of a side's levels within the band, against
\* the top of that side
SideSlippage(inBand, top) ==
  RAbs(RSub(Rat(FillLevels(inBand, TotalSize(inBand)).cost, 100 * TotalSize(inBand)),
            Cents(top.price)))

\* C9: on each leg of a candidate with a positive spread, the per-share
\* slippage the detector uses is
\* |average fill price - top price| over the admitted levels of that leg's own
\* side: the asks and the best ask on the buy leg, the bids and the best bid
\* on the sell leg.
C9_SlippageFromOwnSide ==
  \A c \in Candidates :
    ( /\ BestPrice(c.buy.asks) # Null
      /\ BestPrice(c.sell.bids) # Null
      /\ BestPrice(c.buy.asks).price < BestPrice(c.sell.bids).price ) =>
      LET buyFrom == AnalyzeOrderBook(c.buy, scanAt)
          sellTo == AnalyzeOrderBook(c.sell, scanAt)
      IN /\ SimulateFill(BuyLevels(buyFrom), buyFrom.askDepth, "BUY").slippage
              = SideSlippage(AsksInBand(c.buy), BestPrice(c.buy.asks))
         /\ SimulateFill(SellLevels(sellTo), sellTo.bidDepth, "SELL").slippage
              = SideSlippage(BidsInBand(c.sell), BestPrice(c.sell.bids))

\* C10: an emitted opportunity has slippage (buy + sell)/2 per share and net
\* profit (net spread per share - that slippage) * size, and a candidate with
\* net profit <= 0 yields none; ask 0.40 against bid 0.46 with 500 on each
\* gives size 500, slippage 0 and net profit 23.70.
C10_NetProfitFromCombinedSlippage ==
  \A c \in Candidates :
    (BestPrice(c.buy.asks) # Null /\ BestPrice(c.sell.bids) # Null) =>
      LET buyFrom == AnalyzeOrderBook(c.buy, scanAt)
          sellTo == AnalyzeOrderBook(c.sell, scanAt)
          buy == SimulateFill(BuyLevels(buyFrom), buyFrom.askDepth, "BUY")
          sell == SimulateFill(SellLevels(sellTo), sellTo.bidDepth, "SELL")
          size == Min(Min(buy.totalSize, sell.totalSize), SizeCap)
          ask == Cents(buyFrom.bestAsk.price)
          bid == Cents(sellTo.bestBid.price)
          net == RSub(RSub(RSub(bid, ask), RMul(ask, TakerFee(buyFrom.platform))),
                      RMul(bid, TakerFee(sellTo.platform)))
          combined == Rat(buy.slippage.num * sell.slippage.den + sell.slippage.num * buy.slippage.den,
                          2 * buy.slippage.den * sell.slippage.den)
          profit == RMul(RSub(net, combined), RInt(size))
      IN /\ RLe(profit, RInt(0)) => c.result = Null
         /\ c.result # Null =>
              /\ c.result.estimatedSlippage = RMul(combined, RInt(size))
              /\ c.result.netProfit = profit
         /\ ( /\ c.buy.asks = << Level(40, 500) >> /\ c.buy.platform = "POLYMARKET"
              /\ c.sell.bids = << Level(46, 500) >> /\ c.sell.platform = "KALSHI"
              /\ c.buy.bids = <<>> /\ c.sell.asks = <<>>
              /\ c.result # Null )
            => /\ c.result.maxExecutableSize = 500
               /\ c.result.estimatedSlippage = RInt(0)
               /\ c.result.netProfit = Rat(2370, 100)

\* an opportunity whose buy leg walks two ask levels
C10_Witness ==
  /\ Evaluated
  /\ strategies[1] # Null
  /\ sourceOB.asks = << Level(40, 20), Level(41, 200) >>
  /\ sourceOB.bids = <<>>
  /\ strategies[1].maxExecutableSize = 220
  /\ strategies[1].estimatedSlippage = RInt(1)

InUnitInterval(x) == RLe(RInt(0), x) /\ RLe(x, RInt(1))

\* C12: for every emitted opportunity the freshness, liquidity and match
\* quality components and the overall confidence lie in [0, 1], whatever
\* books the cache holds, books stamped later than the detector's clock
\* included.
C12_ConfidenceInUnitInterval ==
  \A c \in Candidates :
    c.result # Null =>
      /\ InUnitInterval(c.result.confidence.freshness)
      /\ InUnitInterval(c.result.confidence.liquidity)
      /\ InUnitInterval(c.result.confidence.matchQuality)
      /\ InUnitInterval(c.result.confidence.overall)

\* C13: for the confirmed match both directions are evaluated (source buys and
\* target sells, target buys and source sells) and a scan emits at most one
\* opportunity: the surviving candidate of higher net profit, or none when
\* neither direction survives.
C13_BestDirectionOnly ==
  /\ Evaluated =>
       LET survivors == {i \in 1..2 : strategies[i] # Null}
       IN /\ Len(strategies) = 2
          /\ strategies[1] # Null =>
               /\ strategies[1].buyPlatform = sourceOB.platform
               /\ strategies[1].sellPlatform = targetOB.platform
          /\ strategies[2] # Null =>
               /\ strategies[2].buyPlatform = targetOB.platform
               /\ strategies[2].sellPlatform = sourceOB.platform
          /\ survivors = {} => bestOpp = Null
          /\ survivors # {} =>
               /\ \E i \in survivors : bestOpp = strategies[i]
               /\ \A i \in survivors : RLe(strategies[i].netProfit, bestOpp.netProfit)
  /\ Cardinality(opportunities) <= scans

\* both directions survive and the reverse one pays more
C13_Witness ==
  /\ Evaluated
  /\ strategies[1] # Null /\ strategies[2] # Null
  /\ RLt(strategies[1].netProfit, strategies[2].netProfit)
  /\ bestOpp = strategies[2]

(***************************************************************************)
(* Claims on the orderbook cache.                                          *)
(***************************************************************************)
\* C14: an entry is readable at every time up to 9 s after it was last
\* written and reads as not present at every time from 11 s after, a later
\* write to the key counting from the later write.
C14_TtlTenSeconds ==
  \A k \in CacheKeys :
    cache[k] # Null =>
      /\ now <= cache[k].writtenAt + 9000 => CacheGet(k) = cache[k].book
      /\ now >= cache[k].writtenAt + 11000 => CacheGet(k) = Null

\* an entry written 9 s into the run and read back 9 s after that
C14_Witness ==
  \E k \in CacheKeys :
    /\ cache[k] # Null
    /\ cache[k].writtenAt >= 9000
    /\ now = cache[k].writtenAt + 9000
    /\ CacheGet(k) = cache[k].book

(***************************************************************************)
(* Claims on the full sync.                                                *)
(***************************************************************************)
\* C15: in a full sync a venue whose fetch or store write fails leaves the
\* syncs of the other venues as they are; markets_ingested grows only when a
\* venue's sync succeeds, by the number of markets of that venue, all of them
\* stored; and the full sync returns with last_full_sync_at set.
C15_FullSyncSurvivesFailure ==
  [][ /\ \A v \in Venues :
           (v \in syncPending /\ v \notin syncPending'
              /\ stats'.marketsIngested = stats.marketsIngested) =>
             \A w \in Venues \ {v} :
               /\ jobs'[w] = jobs[w]
               /\ w \in syncPending => w \in syncPending'
      /\ stats'.marketsIngested # stats.marketsIngested =>
           \E v \in syncPending \ syncPending' :
             /\ jobs[v] # Null
             /\ Len(jobs[v].todo) = 1
             /\ stats'.marketsIngested = stats.marketsIngested + jobs[v].n
             /\ Cardinality({r \in markets' : r.platform = v}) >= jobs[v].n
      /\ ((orch = "syncing" /\ orch' = "running") \/ (resync /\ ~resync')) =>
           stats'.lastFullSyncAt = [at |-> now]
      /\ orch' = "running" => stats'.lastFullSyncAt # Null
    ]_vars

\* the initial full sync is over, Kalshi's sync failed, and both Polymarket
\* markets are stored and counted
C15_Witness ==
  /\ orch = "running"
  /\ stats.lastFullSyncAt # Null
  /\ stats.marketsIngested = 2
  /\ {r.platform : r \in markets} = {"POLYMARKET"}
  /\ health["KALSHI"].consecutiveErrors = 1

(***************************************************************************)
(* Claims on the targeted refresh.                                         *)
(***************************************************************************)
\* the keys a finished iteration fetched, in order
FetchedKeys == [i \in 1..Len(refresh.results) |-> refresh.results[i].key]

\* C16: an iteration of the targeted refresh fetches the order book of every
\* market that is source or target of a match that was CONFIRMED when the
\* iteration read the matches, once each, and of no other market.
C16_RefreshFetchesMatchedMarkets ==
  refresh.pc = "idle" =>
    /\ {FetchedKeys[i] : i \in 1..Len(FetchedKeys)}
         = {m.sourceMarketId : m \in refresh.matched}
             \cup {m.targetMarketId : m \in refresh.matched}
    /\ \A i, j \in 1..Len(FetchedKeys) : i # j => FetchedKeys[i] # FetchedKeys[j]

\* C17: a step in which a fetch of the targeted refresh succeeds writes the
\* fetched book to the cache: the key's entry is one written at that moment.
C17_RefreshWritesThrough ==
  [][ ( /\ Len(refresh'.results) = Len(refresh.results) + 1
        /\ refresh'.results[Len(refresh'.results)].ok
        /\ refresh'.results[Len(refresh'.results)].key \in CacheKeys )
      => LET k == refresh'.results[Len(refresh'.results)].key
         IN cache'[k] # Null /\ cache'[k].writtenAt = now
    ]_vars

(***************************************************************************)
(* Claims on the matcher.                                                  *)
(***************************************************************************)
\* the unordered pairs of ACTIVE markets on distinct venues
CrossVenuePairs ==
  {pr \in markets \X markets :
     /\ pr[1].status = "ACTIVE" /\ pr[2].status = "ACTIVE"
     /\ pr[1].platform # pr[2].platform}

\* a MarketMatch is stored for the pair, in either direction
Proposed(rows, m1, m2) ==
  \E r \in rows : {r.sourceMarketId, r.targetMarketId} = {MarketId(m1), MarketId(m2)}

\* both end dates present and more than thirty days apart
MoreThanThirtyDaysApart(m1, m2) ==
  /\ m1.endDate # Null /\ m2.endDate # Null
  /\ \/ m1.endDate.at - m2.endDate.at > 30 * 86400
     \/ m2.endDate.at - m1.endDate.at > 30 * 86400

\* C18: when a matcher run has finished, each pair of ACTIVE markets on
\* distinct venues that passed the end-date prefilter has a MarketMatch
\* exactly if its overall score is at least 0.65.
C18_ProposedIffOverallAtLeastMin ==
  mpc = "done" =>
    \A pr \in CrossVenuePairs :
      ~MoreThanThirtyDaysApart(pr[1], pr[2]) =>
        (Proposed(matches, pr[1], pr[2]) <=> Candidate(pr[1], pr[2]).overallScore >= MinScore)

\* the pairs findMatches returned
ReturnedPairs(cands) ==
  {{cands[i].sourceMarketId, cands[i].targetMarketId} : i \in 1..Len(cands)}

\* C19: findMatches returns no pair whose end dates are both present and
\* more than 30 days apart and no MarketMatch is stored for such a pair; of
\* the other pairs (an end date missing, or at most 30 days apart) it
\* returns every one that the later filters on the scores let through.
C19_EndDatePrefilter ==
  [][ /\ (mpc \in {"idle", "done"} /\ mpc' # mpc) =>
           ReturnedPairs(candidates') =
             {{MarketId(pr[1]), MarketId(pr[2])} : pr \in
                {p \in CrossVenuePairs :
                   /\ ~MoreThanThirtyDaysApart(p[1], p[2])
                   /\ Candidate(p[1], p[2]).semanticScore >= QuickFilter
                   /\ Candidate(p[1], p[2]).overallScore >= MinScore}}
      /\ \A pr \in CrossVenuePairs :
           MoreThanThirtyDaysApart(pr[1], pr[2]) => ~Proposed(matches', pr[1], pr[2])
    ]_vars

\* a run has finished over a pair more than 30 days apart that the scores
\* alone would have let through, a pair exactly 30 days apart and a pair
\* with an end date missing: the first has no MarketMatch, the others have
C19_Witness ==
  /\ mpc = "done"
  /\ \E pr \in CrossVenuePairs :
       /\ MoreThanThirtyDaysApart(pr[1], pr[2])
       /\ Candidate(pr[1], pr[2]).overallScore >= MinScore
       /\ ~Proposed(matches, pr[1], pr[2])
  /\ \E pr \in CrossVenuePairs :
       /\ pr[1].endDate # Null /\ pr[2].endDate # Null
       /\ pr[1].endDate.at - pr[2].endDate.at = 30 * 86400
       /\ Proposed(matches, pr[1], pr[2])
  /\ \E pr \in CrossVenuePairs :
       /\ pr[1].endDate = Null
       /\ Proposed(matches, pr[1], pr[2])

\* the category score stored with a match, none being stored counting as 0
PersistedCategoryScore(r) == IF "categoryScore" \in DOMAIN r THEN r.categoryScore ELSE 0

\* C20: each stored MarketMatch has its sub-scores in [0,1] and its overall
\* score in [0,1], and the overall score is 0.45 semantic + 0.20 date + 0.10
\* category + 0.25 resolution over the sub-scores stored with it.
C20_OverallFromPersistedScores ==
  \A r \in matches :
    /\ r.semanticScore \in 0..Unit
    /\ r.dateScore \in 0..Unit
    /\ r.resolutionScore \in 0..Unit
    /\ PersistedCategoryScore(r) \in 0..Unit
    /\ r.overallScore \in 0..(100 * Unit)
    /\ r.overallScore = 45 * r.semanticScore + 20 * r.dateScore
                          + 10 * PersistedCategoryScore(r) + 25 * r.resolutionScore

\* the pairs findMatches returns over the stored markets, in whatever order
\* it reads them
ReturnedFromStore ==
  {pr \in CrossVenuePairs :
     /\ ~EndDatesApart(pr[1], pr[2])
     /\ Candidate(pr[1], pr[2]).semanticScore >= QuickFilter
     /\ Candidate(pr[1], pr[2]).overallScore >= MinScore}

\* the scores stored with a match
StoredScores(r) == <<r.semanticScore, r.resolutionScore, r.dateScore, r.overallScore>>

\* C21: once the matcher has stored a match for every pair it returns over
\* the stored markets, a further run over the same markets changes no stored
\* score and adds no MarketMatch row.
C21_SecondRunChangesNothing ==
  [][ (\A pr \in ReturnedFromStore : Proposed(matches, pr[1], pr[2])) =>
        /\ Cardinality(matches') = Cardinality(matches)
        /\ \A r \in matches : \E q \in matches' :
             /\ q.sourceMarketId = r.sourceMarketId /\ q.targetMarketId = r.targetMarketId
             /\ StoredScores(q) = StoredScores(r)
    ]_vars

\* C22: an upsert of the matcher leaves the status of every stored MarketMatch
\* as it was, and a MarketMatch it adds has status PENDING_REVIEW.
C22_MatcherKeepsStatus ==
  [][ (mpc = "saving" /\ candidates' = Tail(candidates)) =>
        /\ \A r \in matches : \E q \in matches' :
             /\ q.sourceMarketId = r.sourceMarketId /\ q.targetMarketId = r.targetMarketId
             /\ q.status = r.status
        /\ \A q \in matches' :
             (\A r \in matches : <<r.sourceMarketId, r.targetMarketId>>
                                    # <<q.sourceMarketId, q.targetMarketId>>)
               => q.status = "PENDING_REVIEW"
    ]_vars

\* a later run is about to upsert a match that review confirmed or rejected,
\* while another reviewed match of that run has been upserted already
C22_Witness ==
  /\ mpc = "saving"
  /\ \E r \in matches :
       /\ r.status \in {"CONFIRMED", "REJECTED"}
       /\ r.sourceMarketId = Head(candidates).sourceMarketId
       /\ r.targetMarketId = Head(candidates).targetMarketId
  /\ \E r \in matches :
       /\ r.status \in {"CONFIRMED", "REJECTED"}
       /\ \A i \in 1..Len(candidates) :
            <<r.sourceMarketId, r.targetMarketId>>
              # <<candidates[i].sourceMarketId, candidates[i].targetMarketId>>

\* C23: every stored MarketMatch joins markets of two venues, and no two
\* markets are stored both as (X, Y) and as (Y, X).
C23_OneOrientationPerPair ==
  \A r \in matches :
    /\ r.sourcePlatform # r.targetPlatform
    /\ r.sourceMarketId[1] # r.targetMarketId[1]
    /\ \A q \in matches :
         ~(q.sourceMarketId = r.targetMarketId /\ q.targetMarketId = r.sourceMarketId)

(***************************************************************************)
(* Claims on the lifecycle of markets and on shutdown.                     *)
(***************************************************************************)
\* C24: once a full sync has returned, a stored market that the last
\* MissedSyncs successive listings of its venue left out is CLOSED, and every
\* MarketMatch on it is STALE.
C24_UnlistedMarketsClosed ==
  (orch = "running" /\ ~resync /\ syncPending = {}) =>
    \A m \in markets :
      missed[<<m.platform, m.externalId>>] >= MissedSyncs =>
        /\ m.status = "CLOSED"
        /\ \A r \in matches :
             <<m.platform, m.externalId>> \in {r.sourceMarketId, r.targetMarketId}
               => r.status = "STALE"

\* C25: once isShuttingDown is set it stays set, no loop starts a scan or a
\* matching iteration, no periodic full sync and no targeted refresh starts,
\* and a further signal changes nothing.
C25_NothingStartsAfterShutdown ==
  [][ proc.shuttingDown =>
        /\ proc'.shuttingDown
        /\ proc'.scan = "working" => proc.scan = "working"
        /\ proc'.matching = "working" => proc.matching = "working"
        /\ resync' => resync
        /\ syncPending' \subseteq syncPending
        /\ refresh.pc = "idle" => refresh' = refresh
        /\ orch' = orch
        /\ proc'.deadline = proc.deadline
    ]_vars

\* the flag is set, the scan that was under way goes on and the matcher loop
\* has seen the flag after its sleep and ended
C25_Witness ==
  /\ proc.shuttingDown
  /\ proc.exit = "running"
  /\ proc.scan = "working"
  /\ proc.matching = "ended"
  /\ refresh.pc = "idle"

\* C26: once stop() has disconnected the Polymarket client, no reconnect
\* timer is pending and the socket is not opened again.
C26_SocketStaysClosed ==
  orch = "stopped" => ws \in {"none", "closing"}

\* C27: the process exits with code zero only with the stores disconnected
\* and no work in flight: no running scan or matching iteration, no sync
\* and no refresh fetch outstanding.
C27_ExitZeroOnlyWhenWorkFinished ==
  proc.exit = "zero" =>
    /\ proc.stores = "disconnected"
    /\ proc.scan # "working"
    /\ proc.matching # "working"
    /\ syncPending = {}
    /\ refresh.pc = "idle"

(***************************************************************************)
(* Claims on the requests in flight and on the detector's reads.           *)
(***************************************************************************)
\* the requests to venue v that have not settled: the fetch of a full sync,
\* the fetch the targeted refresh awaits, the two fetches of each Kalshi
\* polling iteration
Outstanding(v) ==
  (IF v \in syncPending /\ jobs[v] = Null THEN 1 ELSE 0)
  + (IF refresh.pc = "fetching" /\ Head(refresh.queue)[1] = v THEN 1 ELSE 0)
  + (IF v = "KALSHI"
     THEN Cardinality({i \in 1..MaxPolls : polls[i].quote = "pending"})
          + Cardinality({i \in 1..MaxPolls : polls[i].book = Pending})
     ELSE 0)

\* C28: at every moment at most 10 requests to Polymarket and at most 5
\* requests to Kalshi are outstanding, whoever issued them.
C28_InFlightCap ==
  /\ Outstanding("POLYMARKET") <= PolyLimit
  /\ Outstanding("KALSHI") <= KalshiLimit

\* what redis.get returns for the cache entry e
BookOf(e) == IF e # Null /\ now < e.expiresAt THEN e.book ELSE Null

\* C29: the two books analyzeMatch has read for a match were both the cached
\* values at one instant: some moment of the run held the source book it read
\* and the target book it read side by side.
C29_ReadsFormSnapshot ==
  [][(dpc = "target" /\ dpc' = "analyze" /\ sourceOB # Null /\ targetOB' # Null)
       => \E p \in snap : BookOf(p[1]) = sourceOB /\ BookOf(p[2]) = targetOB']_vars

(***************************************************************************)
(* Claims on the detector's thresholds.                                    *)
(***************************************************************************)
\* this.minSpreadPct = env.MIN_ARBITRAGE_SPREAD_PCT / 100, with the default 0.5
MinSpreadPct == Rat(5, 1000)

\* C30: no opportunity is emitted whose net spread is below the minimum
\* spread, MIN_ARBITRAGE_SPREAD_PCT percent (0.5 by default).
C30_NetSpreadAtLeastMinimum ==
  \A o \in opportunities : RLe(MinSpreadPct, o.netSpread)

(***************************************************************************)
(* Claims on the opportunity the detector returns.                         *)
(***************************************************************************)
\* the page of the match's market on venue v
UrlOn(v) == IF v = SourceKey[1] THEN SourceUrl ELSE TargetUrl

\* C31: the execution plan of an emitted opportunity has two steps, BUY the
\* executable size of YES on the buy venue at the best ask with the URL of the
\* market on the buy venue, then SELL the same size on the sell venue at the
\* best bid with the URL of the market on the sell venue, in both directions.
C31_PlanBuysThenSells ==
  bestOpp # Null =>
    LET plan == bestOpp.executionPlan
    IN /\ Len(plan) = 2
       /\ plan[1].action = "BUY" /\ plan[1].outcome = "YES"
       /\ plan[1].platform = bestOpp.buyPlatform
       /\ plan[1].quantity = bestOpp.maxExecutableSize
       /\ plan[1].limitPrice = bestOpp.buyPrice
       /\ plan[1].platformUrl = UrlOn(bestOpp.buyPlatform)
       /\ plan[2].action = "SELL" /\ plan[2].outcome = "YES"
       /\ plan[2].platform = bestOpp.sellPlatform
       /\ plan[2].quantity = bestOpp.maxExecutableSize
       /\ plan[2].limitPrice = bestOpp.sellPrice
       /\ plan[2].platformUrl = UrlOn(bestOpp.sellPlatform)

\* C32: the ROI of an emitted opportunity is its net profit over
\* ask * max_executable_size * (1 + the buy venue's taker fee rate).
C32_RoiOverInvestmentWithFeeRate ==
  bestOpp # Null =>
    bestOpp.roi =
      RDiv(bestOpp.netProfit,
           RMul(RMul(bestOpp.buyPrice, RInt(bestOpp.maxExecutableSize)),
                RAdd(RInt(1), TakerFee(bestOpp.buyPlatform))))

(***************************************************************************)
(* Claims on failed calls and on overlapping timer callbacks.              *)
(***************************************************************************)
\* C33: a transient failure of an adapter call is retried inside the adapter
\* before it is surfaced: a polling iteration whose order-book fetch fails has
\* issued more than one request for it.
C33_FailureSurfacedAfterRetry ==
  [][\A i \in 1..MaxPolls :
       KalshiBookResponse(i, FALSE, AnsweringKalshiRaw) => polls[i].requests > 1]_vars

\* how bad a health status is
Severity(status) ==
  CASE status = "HEALTHY" -> 0
    [] status = "DEGRADED" -> 1
    [] status = "OFFLINE" -> 2

\* C37: a failed call never improves an adapter's status: a step in which
\* recordError acts on a venue's health leaves the status as bad as it was or
\* worse, in every run from the initial state (OFFLINE, no errors).
C37_FailedCallNeverImproves ==
  [][\A v \in Venues :
       health'[v] = RecordError(health[v])
         => Severity(health'[v].status) >= Severity(health[v].status)]_vars

\* C34: a response of unexpected shape leaves the adapter's health alone:
\* consecutiveErrors is not incremented and the status does not get worse.
C34_SchemaErrorLeavesHealth ==
  [][\A i \in 1..MaxPolls :
       KalshiBookResponse(i, TRUE, MalformedKalshiRaw)
         => /\ health'["KALSHI"].consecutiveErrors <= health["KALSHI"].consecutiveErrors
            /\ Severity(health'["KALSHI"].status) <= Severity(health["KALSHI"].status)]_vars

\* the Kalshi polling rounds whose fetches have not all settled
RoundsInProgress == {i \in 1..MaxPolls : polls[i] # IdlePoll}

\* C40: at most one iteration of a timer-driven ingestion loop is in progress:
\* a Kalshi polling round never starts while the previous round is running.
C40_OneIterationAtATime ==
  Cardinality(RoundsInProgress) <= 1

(***************************************************************************)
(* Claims on the handling of order-book events and on start() and stop().  *)
(***************************************************************************)
\* C35: the number of price snapshots stored for a market never exceeds N.
C35_TrailTrimmed ==
  \A mk \in MarketKeys : priceSnapshots[mk] <= TrailLength

\* a listener of key k ran to its end in this step
Handled(k) == handlers'[k] = handlers[k] - 1

\* the step counted an order book, counted an error, forwarded an event
CountedBook == stats'.orderbooksUpdated # stats.orderbooksUpdated
CountedError == stats'.errorsCount # stats.errorsCount
Forwarded == bus' # bus

\* what every handled order-book event of key k satisfies: one of the two
\* counters moves, the event is forwarded exactly when it is counted as an
\* update, and a forwarded event has its book in the cache and, if its market
\* has a row, a new snapshot
HandledInOrder(k) ==
  LET mk == MarketOf(k[1])
  IN /\ CountedBook # CountedError
     /\ Forwarded <=> CountedBook
     /\ Forwarded =>
          /\ cache[mk] # Null
          /\ HasRow(mk) => priceSnapshots'[mk] = priceSnapshots[mk] + 1

C38_EventProcessedOnce ==
  [][\A k \in HandlerKeys : handlers'[k] > handlers[k] => handlers'[k] = handlers[k] + 1]_vars

\* C39: once stop() has returned no Kalshi polling timer is active, and none
\* becomes active while the orchestrator stays stopped.
C39_NoPollingAfterStop ==
  orch = "stopped" => ~kalshiPoll.interval

====
